---- MODULE Spec2Model ----
(***************************************************************************)
(* Model of the endpoint normalisation and OpenAPI synthesis pipeline of   *)
(* chrome-api-discovery: OpenAPIGenerator (src/lib/openapi-generator.js)   *)
(* and APIAnalyzer (src/lib/api-analyzer.js).                              *)
(*                                                                         *)
(* A JavaScript string is a sequence of one-character strings, so that     *)
(* split, replace, capitalize and the regular expressions of the source    *)
(* are computed character by character instead of being assumed.           *)
(***************************************************************************)
EXTENDS Integers, Sequences, FiniteSets, TLC

(***************************************************************************)
(* Bounds of the model.                                                    *)
(***************************************************************************)
\* longest observation sequence handed to the generator
MaxObs == 2
\* number of generateOpenAPISpec calls made on one generator instance
MaxCalls == 2
\* most segments of a literal path handed to the two normalizePath functions
MaxSegs == 3
\* longest sample list handed to inferParameterTypes
MaxSamples == 4
\* longest observation sequence handed to APIAnalyzer.analyzeEndpoints
MaxAnaObs == 3
\* most API_EVENT messages the background sends
MaxCaptured == 2
\* most requests followed from their headers to their completion
MaxRequests == 2
\* most messages the popup sends
MaxRpc == 3
\* most attempts a caller of Utils.retry asks for
MaxAttempts == 3

(***************************************************************************)
(* Characters.                                                             *)
(***************************************************************************)
LowerAlpha ==
  << "a","b","c","d","e","f","g","h","i","j","k","l","m",
     "n","o","p","q","r","s","t","u","v","w","x","y","z" >>

UpperAlpha ==
  << "A","B","C","D","E","F","G","H","I","J","K","L","M",
     "N","O","P","Q","R","S","T","U","V","W","X","Y","Z" >>

DigitChars == << "0","1","2","3","4","5","6","7","8","9" >>

IsDigit(c) == \E i \in DOMAIN DigitChars : DigitChars[i] = c

\* [a-f0-9] under the i flag: a-f, A-F and 0-9
IsHexI(c) ==
  \/ IsDigit(c)
  \/ \E i \in 1..6 : LowerAlpha[i] = c \/ UpperAlpha[i] = c

\* [a-z0-9] under the i flag
IsAlnumI(c) ==
  \/ IsDigit(c)
  \/ \E i \in DOMAIN LowerAlpha : LowerAlpha[i] = c \/ UpperAlpha[i] = c

UpperChar(c) ==
  IF \E i \in DOMAIN LowerAlpha : LowerAlpha[i] = c
    THEN UpperAlpha[CHOOSE i \in DOMAIN LowerAlpha : LowerAlpha[i] = c]
    ELSE c

LowerChar(c) ==
  IF \E i \in DOMAIN UpperAlpha : UpperAlpha[i] = c
    THEN LowerAlpha[CHOOSE i \in DOMAIN UpperAlpha : UpperAlpha[i] = c]
    ELSE c

(***************************************************************************)
(* String methods of the JavaScript runtime used by the source.            *)
(***************************************************************************)
toUpperCase(s) == [i \in 1..Len(s) |-> UpperChar(s[i])]

toLowerCase(s) == [i \in 1..Len(s) |-> LowerChar(s[i])]

\* s.includes(sub)
includes(s, sub) ==
  \E i \in 1..(Len(s) + 1) :
    /\ i + Len(sub) - 1 <= Len(s)
    /\ SubSeq(s, i, i + Len(sub) - 1) = sub

\* number of characters of s before its first "/" (Len(s) when it has none)
SegLen(s) ==
  IF \E i \in 1..Len(s) : s[i] = "/"
    THEN (CHOOSE i \in 1..Len(s) :
            /\ s[i] = "/"
            /\ \A j \in 1..(i - 1) : s[j] # "/") - 1
    ELSE Len(s)

\* s.split('/')
RECURSIVE split(_)
split(s) ==
  LET n == SegLen(s) IN
  IF n = Len(s)
    THEN << s >>
    ELSE << SubSeq(s, 1, n) >> \o split(SubSeq(s, n + 2, Len(s)))

\* segments.filter(Boolean): the empty string is the only falsy segment
filterBoolean(segs) == SelectSeq(segs, LAMBDA x : x # << >>)

\* String(n) for a natural number
RECURSIVE NatToStr(_)
NatToStr(n) ==
  IF n < Len(DigitChars)
    THEN << DigitChars[n + 1] >>
    ELSE NatToStr(n \div Len(DigitChars)) \o << DigitChars[(n % Len(DigitChars)) + 1] >>

(***************************************************************************)
(* The regular expressions of the two normalizePath functions.  Each has   *)
(* the shape  "/" CLASS-RUN ( "/" | end ), where CLASS excludes "/": it    *)
(* matches at a "/" exactly when the whole segment after it is in the      *)
(* class.  Matches(kind, seg) decides the segment.                         *)
(***************************************************************************)
AllChars(seg, kind) ==
  \A i \in 1..Len(seg) :
    CASE kind = "digit" -> IsDigit(seg[i])
      [] kind = "hex"   -> IsHexI(seg[i])
      [] kind = "alnum" -> IsAlnumI(seg[i])

UuidDashes == {9, 14, 19, 24}

Matches(kind, seg) ==
  CASE kind = "digits"   -> Len(seg) >= 1 /\ AllChars(seg, "digit")
    [] kind = "uuid"     ->
         /\ Len(seg) = 36
         /\ \A i \in 1..Len(seg) :
              IF i \in UuidDashes THEN seg[i] = "-" ELSE IsHexI(seg[i])
    [] kind = "hex24"    -> Len(seg) = 24 /\ AllChars(seg, "hex")
    [] kind = "hex8plus" -> Len(seg) >= 8 /\ AllChars(seg, "hex")
    [] kind = "alnum24"  -> Len(seg) = 24 /\ AllChars(seg, "alnum")

\* s.replace(/\/SEG.../g, repl): scan left to right, non-overlapping matches.
\* A match starts at a "/", so the characters up to the next "/" are copied.
\* consume = FALSE: the segment is followed by the lookahead (?=\/|$), which
\*                  leaves the next "/" in place;
\* consume = TRUE : the pattern ends in (\/|$), which eats the next "/".
RECURSIVE replaceAll(_,_,_,_)
replaceAll(s, kind, repl, consume) ==
  IF s = << >> THEN << >>
  ELSE IF s[1] = "/"
    THEN LET rest  == Tail(s)
             n     == SegLen(rest)
             seg   == SubSeq(rest, 1, n)
             after == SubSeq(rest, n + 1, Len(rest))
         IN IF Matches(kind, seg)
              THEN repl \o
                   (IF consume /\ after # << >>
                      THEN replaceAll(Tail(after), kind, repl, consume)
                      ELSE replaceAll(after, kind, repl, consume))
              ELSE << "/" >> \o replaceAll(rest, kind, repl, consume)
    ELSE LET n == SegLen(s)   \* no match can start before the next "/"
         IN SubSeq(s, 1, n) \o replaceAll(SubSeq(s, n + 1, Len(s)), kind, repl, consume)

\* '/{id}', '/{uuid}', '/{objectId}'
IdRepl == << "/", "{", "i", "d", "}" >>

UuidRepl == << "/", "{", "u", "u", "i", "d", "}" >>

ObjectIdRepl == << "/", "{", "o", "b", "j", "e", "c", "t", "I", "d", "}" >>

\* a normalizePath that tests the ObjectId pattern before the numeric one
normalizePath_ObjectIdFirst(pathname) ==
  replaceAll(
    replaceAll(
      replaceAll(pathname, "hex24", ObjectIdRepl, FALSE),
      "digits", IdRepl, FALSE),
    "uuid", UuidRepl, FALSE)

\* OpenAPIGenerator.normalizePath
normalizePath(pathname) ==
  replaceAll(
    replaceAll(
      replaceAll(pathname, "digits", IdRepl, FALSE),
      "uuid", UuidRepl, FALSE),
    "hex24", ObjectIdRepl, FALSE)

\* APIAnalyzer.patterns.idPatterns, in order
idPatterns == << "digits", "hex8plus", "alnum24" >>

\* APIAnalyzer.normalizePath: every idPattern in turn, each replaced by "/{id}"
RECURSIVE APIAnalyzer_replaceFrom(_,_)
APIAnalyzer_replaceFrom(path, k) ==
  IF k > Len(idPatterns)
    THEN path
    ELSE APIAnalyzer_replaceFrom(replaceAll(path, idPatterns[k], IdRepl, TRUE), k + 1)

APIAnalyzer_normalizePath(path) == APIAnalyzer_replaceFrom(path, 1)

\* APIAnalyzer.extractEndpointPattern applied to the pathname of a parsed url
extractEndpointPattern(pathname) == APIAnalyzer_replaceFrom(pathname, 1)

\* OpenAPIGenerator.capitalize
capitalize(str) ==
  IF str = << >> THEN << >> ELSE << UpperChar(str[1]) >> \o Tail(str)

\* [...new Set(seq)]: the distinct elements of seq in first-seen order
SetOrder(seq) ==
  LET firsts == SelectSeq([n \in 1..Len(seq) |-> n],
                          LAMBDA n : \A m \in 1..(n - 1) : seq[m] # seq[n])
  IN  [k \in 1..Len(firsts) |-> seq[firsts[k]]]

(***************************************************************************)
(* String literals of the source and of the observations.                  *)
(***************************************************************************)
S_users == << "u", "s", "e", "r", "s" >>

S_posts == << "p", "o", "s", "t", "s" >>

S_api == << "a", "p", "i" >>

S_42 == << "4", "2" >>

S_43 == << "4", "3" >>

S_uuid == << "a", "1", "b", "2", "c", "3", "d", "4", "-", "e", "5", "f", "6", "-", "7", "8", "9", "0", "-", "a", "b", "c", "d", "-", "e", "f", "1", "2", "3", "4", "5", "6", "7", "8", "9", "0" >>

S_objectId == << "5", "0", "7", "f", "1", "f", "7", "7", "b", "c", "f", "8", "6", "c", "d", "7", "9", "9", "4", "3", "9", "0", "1", "1" >>

S_item == << "i", "t", "e", "m" >>

S_resource == << "r", "e", "s", "o", "u", "r", "c", "e" >>

S_default == << "d", "e", "f", "a", "u", "l", "t" >>

S_Input == << "I", "n", "p", "u", "t" >>

S_Error == << "E", "r", "r", "o", "r" >>

S_id == << "i", "d" >>

S_uuidName == << "u", "u", "i", "d" >>

S_objectIdName == << "o", "b", "j", "e", "c", "t", "I", "d" >>

S_4xx == << "4", "x", "x" >>

S_5xx == << "5", "x", "x" >>

M_GET == << "G", "E", "T" >>

M_get == << "g", "e", "t" >>

M_POST == << "P", "O", "S", "T" >>

M_PUT == << "P", "U", "T" >>

M_DELETE == << "D", "E", "L", "E", "T", "E" >>

M_PATCH == << "P", "A", "T", "C", "H" >>

M_HEAD == << "H", "E", "A", "D" >>

M_OPTIONS == << "O", "P", "T", "I", "O", "N", "S" >>

W_create == << "c", "r", "e", "a", "t", "e" >>

W_update == << "u", "p", "d", "a", "t", "e" >>

W_delete == << "d", "e", "l", "e", "t", "e" >>

W_patch == << "p", "a", "t", "c", "h" >>

W_head == << "h", "e", "a", "d" >>

W_options == << "o", "p", "t", "i", "o", "n", "s" >>

W_post == << "p", "o", "s", "t" >>

W_put == << "p", "u", "t" >>

H_Authorization == << "A", "u", "t", "h", "o", "r", "i", "z", "a", "t", "i", "o", "n" >>

H_XApiKey == << "X", "-", "A", "P", "I", "-", "K", "e", "y" >>

K_authorization == << "a", "u", "t", "h", "o", "r", "i", "z", "a", "t", "i", "o", "n" >>

K_apiKey == << "a", "p", "i", "-", "k", "e", "y" >>

K_token == << "t", "o", "k", "e", "n" >>

(***************************************************************************)
(* Observations (the endpoint records handed to the generator).            *)
(*                                                                         *)
(* A url is kept parsed: new URL(url) succeeds exactly when parseable is   *)
(* TRUE, and then yields protocol, hostname and port ("" for the default   *)
(* port).  createEndpointFromRequest (background.js 392-407) derives       *)
(* hostname and pathname from the parsed url; a record whose url cannot be *)
(* parsed has no pathname field (endpoint.pathname is undefined).          *)
(***************************************************************************)
Url(protocol, hostname, port) ==
  [parseable |-> TRUE, protocol |-> protocol, hostname |-> hostname, port |-> port]

BadUrl == [parseable |-> FALSE]

ApiX == Url("https:", "api.x.com", "")

\* "/" seg1 "/" seg2 ...
RECURSIVE PathOf(_)
PathOf(segs) ==
  IF segs = << >> THEN << >> ELSE << "/" >> \o Head(segs) \o PathOf(Tail(segs))

NoHeaders == << >>

Endpoint(url, segs, method, status, headers) ==
  [url          |-> url,
   pathname     |-> PathOf(segs),
   method       |-> method,
   status       |-> status,
   contentType  |-> "application/json",
   searchParams |-> << >>,
   headers      |-> headers]

\* an observation whose url is not parseable: no derived host or path
Unparsed(method, status) ==
  [url          |-> BadUrl,
   method       |-> method,
   status       |-> status,
   contentType  |-> "application/json",
   searchParams |-> << >>,
   headers      |-> NoHeaders]

Bearer == (H_Authorization :> "Bearer xyz")

ApiKey == (H_XApiKey :> "k-123")

\* The observations the model draws from: every path with GET/200, and the
\* path /users/42 (and /users) varied in method, status and headers.
ObsPool ==
  { Endpoint(ApiX, segs, M_GET, 200, NoHeaders) :
      segs \in { << S_users >>, << S_users, S_42 >>, << S_users, S_43 >>,
                 << S_users, S_42, S_posts >>,
                 << S_api, S_users >>, << S_api, S_posts >> } }
  \cup
  { Endpoint(ApiX, << S_users, S_42 >>, M_GET, st, NoHeaders) : st \in {404, 500} }
  \cup
  { Endpoint(ApiX, << S_users, S_42 >>, M_GET, 200, h) : h \in {Bearer, ApiKey} }
  \cup
  { Endpoint(ApiX, << S_users, S_42 >>, M_get, 200, NoHeaders),
    Endpoint(ApiX, << S_users >>, M_POST, 201, NoHeaders),
    Unparsed(M_GET, 200) }

hasPathname(endpoint) == "pathname" \in DOMAIN endpoint

(***************************************************************************)
(* OpenAPIGenerator (src/lib/openapi-generator.js).                        *)
(*                                                                         *)
(* A schema reference '#/components/schemas/<Name>' is kept as <Name>: it  *)
(* resolves when <Name> is a key of components.schemas.  The summary and   *)
(* description texts of an operation and the discoveryDate timestamp are   *)
(* not kept: they are display strings that nothing reads back.             *)
(***************************************************************************)
\* pathname.split('/').filter(Boolean)
pathSegments(pathname) == filterBoolean(split(pathname))

extractResourceName(pathname) ==
  LET segments == pathSegments(pathname) IN
  IF segments = << >> THEN S_resource ELSE segments[Len(segments)]

\* the methodPrefix table of generateUniqueOperationId, with its fallback
methodPrefix(method) ==
  LET m == toUpperCase(method) IN
  CASE m = M_GET     -> M_get
    [] m = M_POST    -> W_create
    [] m = M_PUT     -> W_update
    [] m = M_DELETE  -> W_delete
    [] m = M_PATCH   -> W_patch
    [] m = M_HEAD    -> W_head
    [] m = M_OPTIONS -> W_options
    [] OTHER         -> toLowerCase(method)

\* the base name `${methodPrefix}${this.capitalize(resource)}`
operationIdBase(method, pathname) ==
  LET segments == pathSegments(pathname)
      resource == IF segments = << >> THEN S_item ELSE segments[Len(segments)]
  IN  methodPrefix(method) \o capitalize(resource)

\* the while loop of generateUniqueOperationId
RECURSIVE ensureUnique(_,_,_,_)
ensureUnique(operationId, base, counter, cache) ==
  IF operationId \in cache
    THEN ensureUnique(base \o NatToStr(counter), base, counter + 1, cache)
    ELSE operationId

\* a generator that forgets to consult the cache
generateUniqueOperationId_NoCheck(method, pathname, cache) ==
  operationIdBase(method, pathname)

\* generateUniqueOperationId: the id returned; the caller adds it to the cache
generateUniqueOperationId(method, pathname, cache) ==
  LET base == operationIdBase(method, pathname) IN
  ensureUnique(base, base, 1, cache)

generateOperationTags(pathname) ==
  LET segments == pathSegments(pathname) IN
  (IF Len(segments) > 0 THEN << segments[1] >> ELSE << >>)
  \o (IF Len(segments) > 2 THEN << segments[2] >> ELSE << >>)

\* getResourceFromSegment, with the 1-based index of the model
getResourceFromSegment(segments, index) ==
  IF index > 1 THEN segments[index - 1] ELSE S_resource

RECURSIVE pathParamsFrom(_,_)
pathParamsFrom(segments, index) ==
  IF index > Len(segments) THEN << >>
  ELSE LET segment == segments[index]
           resource == getResourceFromSegment(segments, index)
           here ==
             IF Matches("digits", segment)
               THEN << [name |-> S_id, type |-> "integer", resource |-> resource] >>
             ELSE IF Matches("uuid", segment)
               THEN << [name |-> S_uuidName, type |-> "string", format |-> "uuid",
                        resource |-> resource] >>
             ELSE IF Matches("hex24", segment)
               THEN << [name |-> S_objectIdName, type |-> "string",
                        resource |-> resource] >>
             ELSE << >>
       IN here \o pathParamsFrom(segments, index + 1)

extractPathParameters(pathname) == pathParamsFrom(split(pathname), 1)

\* !isNaN(value) for the values of the model: an optional sign, digits, at
\* most one decimal point and at least one digit
IsNumericString(value) ==
  LET body == IF value # << >> /\ value[1] \in {"-", "+"} THEN Tail(value) ELSE value
  IN  /\ \E i \in 1..Len(body) : IsDigit(body[i])
      /\ \A i \in 1..Len(body) : IsDigit(body[i]) \/ body[i] = "."
      /\ Cardinality({i \in 1..Len(body) : body[i] = "."}) <= 1

inferParameterType(value) ==
  IF value = << "t", "r", "u", "e" >> \/ value = << "f", "a", "l", "s", "e" >>
    THEN [type |-> "boolean"]
  ELSE IF IsNumericString(value) /\ value # << >>
    THEN [type |-> "number"]
  ELSE [type |-> "string"]

\* searchParams is the sequence of the object's [name, value] entries
generateParameters(endpoint) ==
  LET pathParams == extractPathParameters(endpoint.pathname)
      sp == endpoint.searchParams
  IN  [i \in 1..Len(pathParams) |->
         [name |-> pathParams[i].name, in |-> "path", required |-> TRUE,
          schema |-> [type |-> pathParams[i].type]]]
      \o
      [i \in 1..Len(sp) |->
         [name |-> sp[i][1], in |-> "query", required |-> FALSE,
          schema |-> inferParameterType(sp[i][2]), example |-> sp[i][2]]]

\* generateResponseSchema: the $ref returned (the schema name is also put
\* into schemaCache by the caller)
generateResponseSchema(endpoint) ==
  [ref |-> capitalize(extractResourceName(endpoint.pathname))]

generateResponseContent(endpoint) ==
  IF endpoint.contentType # "" /\ endpoint.contentType # "unknown"
    THEN (endpoint.contentType :> [schema |-> generateResponseSchema(endpoint)])
    ELSE ("application/json" :> [schema |-> generateResponseSchema(endpoint)])

ErrorContent == ("application/json" :> [schema |-> [ref |-> S_Error]])

generateResponses(endpoint) ==
  (NatToStr(endpoint.status) :> [content |-> generateResponseContent(endpoint)])
  @@ (IF endpoint.status >= 400
        THEN (S_4xx :> [content |-> ErrorContent]) ELSE << >>)
  @@ (IF endpoint.status >= 500
        THEN (S_5xx :> [content |-> ErrorContent]) ELSE << >>)

generateRequestBody(endpoint) ==
  [required |-> TRUE,
   content  |-> ("application/json" :>
                   [schema |-> [ref |-> capitalize(extractResourceName(endpoint.pathname))
                                          \o S_Input]])]

\* the header test of generateSecurity
IsAuthHeader(h) ==
  \/ includes(toLowerCase(h), K_authorization)
  \/ includes(toLowerCase(h), K_apiKey)
  \/ includes(toLowerCase(h), K_token)

generateSecurity(endpoint) ==
  IF \E h \in DOMAIN endpoint.headers : IsAuthHeader(h)
    THEN << "bearerAuth" >>
    ELSE << >>

HasRequestBody(method) == toLowerCase(method) \in {W_post, W_put, W_patch}

\* generateOperation, given the operationIdCache at the time of the call
generateOperation(endpoint, cache) ==
  [operationId |-> generateUniqueOperationId(endpoint.method, endpoint.pathname, cache),
   tags        |-> generateOperationTags(endpoint.pathname),
   parameters  |-> generateParameters(endpoint),
   responses   |-> generateResponses(endpoint),
   security    |-> generateSecurity(endpoint)]
  @@ (IF HasRequestBody(endpoint.method)
        THEN [requestBody |-> generateRequestBody(endpoint)]
        ELSE << >>)

\* paths[path][method] = operation
putOperation(paths, path, method, operation) ==
  LET old == IF path \in DOMAIN paths THEN paths[path] ELSE << >> IN
  (path :> ((method :> operation) @@ old)) @@ paths

\* a generatePaths that files each operation under the literal pathname
pathKey_Literal(endpoint) == endpoint.pathname

\* the key under which generatePaths files an endpoint
pathKey(endpoint) == normalizePath(endpoint.pathname)

\* generatePaths: the forEach over endpoints[index..], threading the paths
\* object and the two caches of the generator instance.  assigned is a
\* history of the operationIds handed out, in processing order.
RECURSIVE generatePathsFrom(_,_,_)
generatePathsFrom(endpoints, index, acc) ==
  IF index > Len(endpoints) THEN acc
  ELSE LET endpoint  == endpoints[index]
           path      == pathKey(endpoint)
           method    == toLowerCase(endpoint.method)
           operation == generateOperation(endpoint, acc.operationIdCache)
       IN generatePathsFrom(endpoints, index + 1,
            [paths            |-> putOperation(acc.paths, path, method, operation),
             operationIdCache |-> acc.operationIdCache \cup {operation.operationId},
             assigned         |-> Append(acc.assigned, operation.operationId),
             schemaCache      |-> acc.schemaCache
                                    \cup {generateResponseSchema(endpoint).ref}])

generatePaths(endpoints, operationIdCache, schemaCache) ==
  generatePathsFrom(endpoints, 1,
    [paths |-> << >>, operationIdCache |-> operationIdCache,
     assigned |-> << >>, schemaCache |-> schemaCache])

\* analyzeEndpoints of the generator: the groups Map as a sequence of
\* [name, patterns] in insertion order
groupKey(path) ==
  LET parts == split(path) IN
  IF Len(parts) >= 2 /\ parts[2] # << >> THEN parts[2] ELSE S_default

RECURSIVE analyzeFrom(_,_,_)
analyzeFrom(endpoints, index, groups) ==
  IF index > Len(endpoints) THEN groups
  ELSE LET path == normalizePath(endpoints[index].pathname)
           key  == groupKey(path)
       IN analyzeFrom(endpoints, index + 1,
            IF \E g \in 1..Len(groups) : groups[g].name = key
              THEN [g \in 1..Len(groups) |->
                      IF groups[g].name = key
                        THEN [name |-> key, patterns |-> Append(groups[g].patterns, path)]
                        ELSE groups[g]]
              ELSE Append(groups, [name |-> key, patterns |-> << path >>]))

analyzeEndpoints(endpoints) == [groups |-> analyzeFrom(endpoints, 1, << >>)]

\* generateSchemas: one schema and one Input schema per group, named after
\* the last segment of the group's first pattern, then the Error schema
RECURSIVE schemasFrom(_,_,_)
schemasFrom(groups, index, schemas) ==
  IF index > Len(groups) THEN schemas
  ELSE LET resourceName == extractResourceName(groups[index].patterns[1])
           schemaName   == capitalize(resourceName)
       IN schemasFrom(groups, index + 1,
            ((schemaName \o S_Input) :>
               [type |-> "object", properties |-> {"name"}, required |-> {"name"}])
            @@ (schemaName :> [type |-> "object", properties |-> {"id", "name"}])
            @@ schemas)

ErrorSchema == [type |-> "object", properties |-> {"error", "code", "details"}]

generateSchemas(endpoints, analysis) ==
  (S_Error :> ErrorSchema) @@ schemasFrom(analysis.groups, 1, << >>)

\* the header test of generateSecuritySchemes
IsAuthorizationHeader(h) == includes(toLowerCase(h), K_authorization)

generateSecuritySchemes(endpoints) ==
  IF \E i \in 1..Len(endpoints) :
       \E h \in DOMAIN endpoints[i].headers : IsAuthorizationHeader(h)
    THEN [bearerAuth |-> [type |-> "http", scheme |-> "bearer", bearerFormat |-> "JWT"]]
    ELSE << >>

generateComponents(endpoints, analysis) ==
  [schemas         |-> generateSchemas(endpoints, analysis),
   securitySchemes |-> generateSecuritySchemes(endpoints)]

generateTags(analysis) ==
  [g \in 1..Len(analysis.groups) |->
     [name |-> extractResourceName(analysis.groups[g].patterns[1])]]

\* `${url.protocol}//${url.hostname}` and url.origin, as <<protocol, hostname, port>>
ExampleCom == << "https:", "example.com", "" >>

determineBaseURL(endpoints) ==
  IF Len(endpoints) = 0 THEN ExampleCom
  ELSE IF endpoints[1].url.parseable
    THEN << endpoints[1].url.protocol, endpoints[1].url.hostname, "" >>
    ELSE ExampleCom

origin(url) == << url.protocol, url.hostname, url.port >>

\* [...new Set(origins of the parseable urls)], in first-seen order
RECURSIVE uniqueHostsFrom(_,_,_)
uniqueHostsFrom(endpoints, index, hosts) ==
  IF index > Len(endpoints) THEN hosts
  ELSE LET url == endpoints[index].url IN
       uniqueHostsFrom(endpoints, index + 1,
         IF url.parseable /\ ~ \E k \in 1..Len(hosts) : hosts[k] = origin(url)
           THEN Append(hosts, origin(url))
           ELSE hosts)

generateServers(baseURL, endpoints) ==
  LET uniqueHosts == uniqueHostsFrom(endpoints, 1, << >>) IN
  << [url |-> baseURL] >>
  \o (IF Len(uniqueHosts) > 1
        THEN [k \in 1..Len(SelectSeq(uniqueHosts, LAMBDA h : h # baseURL)) |->
                [url |-> SelectSeq(uniqueHosts, LAMBDA h : h # baseURL)[k]]]
        ELSE << >>)

generateInfo == [title |-> "Discovered API", version |-> "0.1.0"]

\* an empty document that lists no server
generateEmptySpec_NoServers ==
  [openapi    |-> "3.0.3",
   info       |-> [title |-> "Discovered API", version |-> "0.1.0"],
   servers    |-> << >>,
   paths      |-> << >>,
   components |-> [schemas |-> << >>],
   tags       |-> << >>]

generateEmptySpec ==
  [openapi    |-> "3.0.3",
   info       |-> [title |-> "Discovered API", version |-> "0.1.0"],
   servers    |-> << [url |-> ExampleCom] >>,
   paths      |-> << >>,
   components |-> [schemas |-> << >>],
   tags       |-> << >>]

\* normalizePath(undefined) raises a TypeError: the first place that reads
\* endpoint.pathname is analyzeEndpoints, before any cache is touched
Raises(endpoints) == \E i \in 1..Len(endpoints) : ~ hasPathname(endpoints[i])

\* generateOpenAPISpec: what the call returns (or that it raised) and the
\* caches it leaves on the instance
generateOpenAPISpec(endpoints, operationIdCache, schemaCache) ==
  IF Len(endpoints) = 0
    THEN [raised |-> FALSE, doc |-> generateEmptySpec, assigned |-> << >>,
          operationIdCache |-> operationIdCache, schemaCache |-> schemaCache]
  ELSE IF Raises(endpoints)
    THEN [raised |-> TRUE, doc |-> << >>, assigned |-> << >>,
          operationIdCache |-> operationIdCache, schemaCache |-> schemaCache]
  ELSE LET analysis == analyzeEndpoints(endpoints)
           baseURL  == determineBaseURL(endpoints)
           built    == generatePaths(endpoints, operationIdCache, schemaCache)
       IN [raised |-> FALSE,
           doc |-> [openapi    |-> "3.0.3",
                    info       |-> generateInfo,
                    servers    |-> generateServers(baseURL, endpoints),
                    paths      |-> built.paths,
                    components |-> generateComponents(endpoints, analysis),
                    tags       |-> generateTags(analysis),
                    totalEndpoints |-> Len(endpoints)],
           assigned         |-> built.assigned,
           operationIdCache |-> built.operationIdCache,
           schemaCache      |-> built.schemaCache]

(***************************************************************************)
(* APIAnalyzer.inferParameterTypes (src/lib/api-analyzer.js).              *)
(***************************************************************************)
\* the class the forEach of inferParameterTypes adds to types for a sample
sampleType(sample) ==
  IF sample = << "t", "r", "u", "e" >> \/ sample = << "f", "a", "l", "s", "e" >>
    THEN "boolean"
  ELSE IF IsNumericString(sample) /\ sample # << >>
    THEN "number"
  ELSE "string"

\* an inferParameterTypes that keeps every distinct sample as an example
inferParameterTypes_NoCap(samples) ==
  LET types        == SetOrder([n \in 1..Len(samples) |-> sampleType(samples[n])])
      uniqueValues == SetOrder(samples)
  IN  IF Len(samples) = 0 THEN [type |-> "string"]
      ELSE IF Len(types) = 1
        THEN [type |-> types[1], example |-> uniqueValues[1]]
      ELSE [type     |-> "string",
            anyOf    |-> [k \in 1..Len(types) |-> [type |-> types[k]]],
            examples |-> uniqueValues]

inferParameterTypes(samples) ==
  LET types        == SetOrder([n \in 1..Len(samples) |-> sampleType(samples[n])])
      uniqueValues == SetOrder(samples)
  IN  IF Len(samples) = 0 THEN [type |-> "string"]
      ELSE IF Len(types) = 1
        THEN [type |-> types[1], example |-> uniqueValues[1]]
      ELSE [type     |-> "string",
            anyOf    |-> [k \in 1..Len(types) |-> [type |-> types[k]]],
            examples |-> SubSeq(uniqueValues, 1,
                                IF Len(uniqueValues) < 3 THEN Len(uniqueValues) ELSE 3)]

(***************************************************************************)
(* APIAnalyzer.analyzeEndpoints (src/lib/api-analyzer.js).                 *)
(*                                                                         *)
(* The analyzer parses endpoint.url itself.  Its observations keep the     *)
(* hostname and the pathname of the parsed url as character sequences,     *)
(* because getEndpointGroupKey concatenates them.  A Map is the sequence   *)
(* of its entries in insertion order.                                      *)
(***************************************************************************)
\* the parsed url of https://<hostname>/<seg>/<seg>...
AUrl(hostname, segs) ==
  [parseable |-> TRUE, protocol |-> "https:", hostname |-> hostname,
   pathname  |-> IF segs = << >> THEN << "/" >> ELSE PathOf(segs)]

AObs(url, method, status) ==
  [url          |-> url,
   method       |-> method,
   status       |-> status,
   contentType  |-> "application/json",
   searchParams |-> << >>,
   headers      |-> NoHeaders]

\* endpoint.url as the string it was parsed from
urlString(url) ==
  << "h", "t", "t", "p", "s", ":", "/", "/" >> \o url.hostname \o url.pathname

\* array.sort((a, b) => b[field] - a[field]): stable, descending
SortDescBy(seq, field) ==
  LET rank(i) == 1 + Cardinality({j \in 1..Len(seq) :
                        \/ seq[j][field] > seq[i][field]
                        \/ (seq[j][field] = seq[i][field] /\ j < i)})
  IN  [r \in 1..Len(seq) |-> seq[CHOOSE i \in 1..Len(seq) : rank(i) = r]]

\* map.set(k, (map.get(k) || 0) + 1) for every k of keys, then sortMapByValue
sortMapByValue(keys) ==
  LET distinct == SetOrder(keys) IN
  SortDescBy([d \in 1..Len(distinct) |->
                [key   |-> distinct[d],
                 value |-> Cardinality({n \in 1..Len(keys) : keys[n] = distinct[d]})]],
             "value")

getEndpointGroupKey(endpoint) ==
  LET segments == pathSegments(endpoint.url.pathname) IN
  IF Len(segments) >= 2
    THEN endpoint.url.hostname \o segments[1] \o << "/" >> \o segments[2]
  ELSE IF Len(segments) = 1
    THEN endpoint.url.hostname \o segments[1]
  ELSE endpoint.url.hostname

\* `${urlObj.protocol}//${urlObj.hostname}`, or the url itself when it does
\* not parse
getBaseUrl(url) == IF url.parseable THEN << url.protocol, url.hostname >> ELSE url

\* the forEach of groupEndpointsByPattern over endpoints[index..]
RECURSIVE groupFrom(_,_,_)
groupFrom(endpoints, index, groups) ==
  IF index > Len(endpoints) THEN groups
  ELSE LET endpoint == endpoints[index]
           key      == getEndpointGroupKey(endpoint)
           pattern  == extractEndpointPattern(endpoint.url.pathname)
           fresh    == [key |-> key, baseUrl |-> getBaseUrl(endpoint.url),
                        hostname |-> endpoint.url.hostname, endpoints |-> << >>,
                        patterns |-> << >>, methods |-> << >>, statusCodes |-> << >>]
           with     == IF \E g \in 1..Len(groups) : groups[g].key = key
                         THEN groups ELSE Append(groups, fresh)
       IN groupFrom(endpoints, index + 1,
            [g \in 1..Len(with) |->
               IF with[g].key = key
                 THEN [with[g] EXCEPT
                         !.endpoints   = Append(@, endpoint),
                         !.methods     = SetOrder(Append(@, endpoint.method)),
                         !.statusCodes = SetOrder(Append(@, endpoint.status)),
                         !.patterns    = SetOrder(Append(@, pattern))]
                 ELSE with[g]])

groupEndpointsByPattern(endpoints) ==
  LET groups == groupFrom(endpoints, 1, << >>) IN
  SortDescBy([g \in 1..Len(groups) |->
                [baseUrl       |-> groups[g].baseUrl,
                 hostname      |-> groups[g].hostname,
                 endpoints     |-> groups[g].endpoints,
                 patterns      |-> groups[g].patterns,
                 methods       |-> groups[g].methods,
                 statusCodes   |-> groups[g].statusCodes,
                 endpointCount |-> Len(groups[g].endpoints)]],
             "endpointCount")

\* this.patterns.resourcePatterns: "/" stem "s"? tail
resourcePatterns ==
  << [stem |-> << "u","s","e","r" >>, s |-> TRUE, tail |-> << "/" >>],
     [stem |-> << "p","o","s","t" >>, s |-> TRUE, tail |-> << "/" >>],
     [stem |-> << "a","r","t","i","c","l","e" >>, s |-> TRUE, tail |-> << "/" >>],
     [stem |-> << "p","r","o","d","u","c","t" >>, s |-> TRUE, tail |-> << "/" >>],
     [stem |-> << "o","r","d","e","r" >>, s |-> TRUE, tail |-> << "/" >>],
     [stem |-> << "c","o","m","m","e","n","t" >>, s |-> TRUE, tail |-> << "/" >>],
     [stem |-> << "f","i","l","e" >>, s |-> TRUE, tail |-> << "/" >>],
     [stem |-> << "i","m","a","g","e" >>, s |-> TRUE, tail |-> << "/" >>],
     [stem |-> << "v","i","d","e","o" >>, s |-> TRUE, tail |-> << "/" >>],
     [stem |-> << "c","a","t","e","g","o","r","i","e" >>, s |-> TRUE, tail |-> << "/" >>],
     [stem |-> << "t","a","g" >>, s |-> TRUE, tail |-> << "/" >>],
     [stem |-> << "s","e","a","r","c","h" >>, s |-> FALSE, tail |-> << >>],
     [stem |-> << "a","u","t","h" >>, s |-> FALSE, tail |-> << >>],
     [stem |-> << "l","o","g","i","n" >>, s |-> FALSE, tail |-> << >>],
     [stem |-> << "l","o","g","o","u","t" >>, s |-> FALSE, tail |-> << >>],
     [stem |-> << "r","e","g","i","s","t","e","r" >>, s |-> FALSE, tail |-> << >>],
     [stem |-> << "p","r","o","f","i","l","e" >>, s |-> FALSE, tail |-> << >>],
     [stem |-> << "s","e","t","t","i","n","g","s" >>, s |-> FALSE, tail |-> << >>],
     [stem |-> << "a","d","m","i","n" >>, s |-> FALSE, tail |-> << >>],
     [stem |-> << "a","p","i" >>, s |-> FALSE, tail |-> << "/" >>],
     [stem |-> << "r","e","s","t" >>, s |-> FALSE, tail |-> << "/" >>],
     [stem |-> << "v" >>, digits |-> TRUE, s |-> FALSE, tail |-> << "/" >>],
     [stem |-> << "g","r","a","p","h","q","l" >>, s |-> FALSE, tail |-> << >>] >>

\* pattern.test(url) for the k-th resource pattern
resourcePatternTest(k, url) ==
  LET pat == resourcePatterns[k] IN
  IF "digits" \in DOMAIN pat
    THEN \E i \in 1..Len(url) : \E j \in (i + 2)..(Len(url) - 1) :
           /\ url[i] = "/" /\ url[i + 1] = "v" /\ url[j + 1] = "/"
           /\ \A d \in (i + 2)..j : IsDigit(url[d])
    ELSE \/ includes(url, << "/" >> \o pat.stem \o pat.tail)
         \/ pat.s /\ includes(url, << "/" >> \o pat.stem \o << "s" >> \o pat.tail)

\* detectResourceType: the index of the first pattern that matches, as the
\* entries() of the array give it (0-based), or "unknown"; the index is kept
\* in decimal so that it compares with "unknown"
detectResourceType(endpoint) ==
  LET url == toLowerCase(urlString(endpoint.url)) IN
  IF \E k \in 1..Len(resourcePatterns) : resourcePatternTest(k, url)
    THEN NatToStr((CHOOSE k \in 1..Len(resourcePatterns) :
                     /\ resourcePatternTest(k, url)
                     /\ \A m \in 1..(k - 1) : ~ resourcePatternTest(m, url)) - 1)
    ELSE << "u", "n", "k", "n", "o", "w", "n" >>

\* Object.keys(headers), for the header objects of the model, which have at
\* most one entry
headerNames(headers) ==
  IF DOMAIN headers = {} THEN << >> ELSE << CHOOSE h \in DOMAIN headers : TRUE >>

\* the concatenation of seqs
RECURSIVE Flatten(_)
Flatten(seqs) == IF seqs = << >> THEN << >> ELSE Head(seqs) \o Flatten(Tail(seqs))

extractCommonPatterns(endpoints) ==
  [commonPaths |->
     sortMapByValue([n \in 1..Len(endpoints) |->
                       extractEndpointPattern(endpoints[n].url.pathname)]),
   commonQueryParams |->
     sortMapByValue(Flatten([n \in 1..Len(endpoints) |->
                       [q \in 1..Len(endpoints[n].searchParams) |->
                          endpoints[n].searchParams[q][1]]])),
   commonHeaders |->
     sortMapByValue(Flatten([n \in 1..Len(endpoints) |->
                       headerNames(endpoints[n].headers)])),
   resourceTypes |->
     sortMapByValue([n \in 1..Len(endpoints) |-> detectResourceType(endpoints[n])])]

generateStatistics(endpoints) ==
  LET parsed == SelectSeq(endpoints, LAMBDA e : e.url.parseable)
      typed  == SelectSeq(endpoints,
                  LAMBDA e : e.contentType # "" /\ e.contentType # "unknown")
  IN  [totalEndpoints      |-> Len(endpoints),
       uniqueHosts         |-> SetOrder([n \in 1..Len(parsed) |-> parsed[n].url.hostname]),
       methods             |-> sortMapByValue([n \in 1..Len(endpoints) |->
                                                 endpoints[n].method]),
       statusCodes         |-> sortMapByValue([n \in 1..Len(endpoints) |->
                                                 endpoints[n].status]),
       contentTypes        |-> sortMapByValue([n \in 1..Len(typed) |->
                                                 typed[n].contentType]),
       averageResponseSize |-> 0]

\* new URL(endpoint.url) in getEndpointGroupKey is not guarded: the first
\* unparseable url makes groupEndpointsByPattern raise a TypeError
APIAnalyzer_Raises(endpoints) ==
  \E n \in 1..Len(endpoints) : ~ endpoints[n].url.parseable

\* APIAnalyzer.analyzeEndpoints: what the call returns, or that it raised
APIAnalyzer_analyzeEndpoints(endpoints) ==
  IF Len(endpoints) = 0
    THEN [raised |-> FALSE, groups |-> << >>, patterns |-> << >>, statistics |-> << >>]
  ELSE IF APIAnalyzer_Raises(endpoints)
    THEN [raised |-> TRUE]
  ELSE [raised     |-> FALSE,
        groups     |-> groupEndpointsByPattern(endpoints),
        patterns   |-> extractCommonPatterns(endpoints),
        statistics |-> generateStatistics(endpoints)]

(***************************************************************************)
(* APIDiscoveryBackground (src/background/background.js): the request      *)
(* handlers.                                                               *)
(*                                                                         *)
(* A webRequest details object keeps its url parsed, with the hostname,    *)
(* the pathname and the query entries as character sequences; two urls are *)
(* the same string exactly when they are the same record.  The timestamp   *)
(* of an endpoint record is not kept.                                      *)
(***************************************************************************)
BUrl(hostname, segs, search) ==
  [parseable |-> TRUE, protocol |-> "https:", hostname |-> hostname, port |-> "",
   pathname  |-> IF segs = << >> THEN << "/" >> ELSE PathOf(segs),
   search    |-> search]

\* "?k=v&k=v" of the query entries, "" when there are none
RECURSIVE searchString(_,_)
searchString(search, index) ==
  IF index > Len(search) THEN << >>
  ELSE (IF index = 1 THEN << "?" >> ELSE << "&" >>)
       \o search[index][1] \o << "=" >> \o search[index][2]
       \o searchString(search, index + 1)

\* details.url
detailsUrlString(url) ==
  << "h", "t", "t", "p", "s", ":", "/", "/" >> \o url.hostname \o url.pathname
  \o searchString(url.search, 1)

\* the apiPatterns of isAPIRequest
apiPatterns ==
  << << "/", "a", "p", "i", "/" >>,
     << "/", "r", "e", "s", "t", "/" >>,
     << "/", "g", "r", "a", "p", "h", "q", "l" >>,
     << "/", "v", "1", "/" >>,
     << "/", "v", "2", "/" >>,
     << "/", "v", "3", "/" >>,
     << ".", "j", "s", "o", "n" >>,
     << "a", "p", "p", "l", "i", "c", "a", "t", "i", "o", "n", "/", "j", "s", "o", "n" >>,
     << "t", "e", "x", "t", "/", "j", "s", "o", "n" >> >>

isAPIRequest(details) ==
  \/ details.type = "xmlhttprequest"
  \/ \E k \in 1..Len(apiPatterns) :
       includes(toLowerCase(detailsUrlString(details.url)), apiPatterns[k])
  \/ details.initiator

H_contentType == << "c", "o", "n", "t", "e", "n", "t", "-", "t", "y", "p", "e" >>

S_unknown == << "u", "n", "k", "n", "o", "w", "n" >>

\* value.split(";")[0]
beforeSemicolon(value) ==
  IF \E i \in 1..Len(value) : value[i] = ";"
    THEN SubSeq(value, 1, (CHOOSE i \in 1..Len(value) :
                             value[i] = ";" /\ \A j \in 1..(i - 1) : value[j] # ";") - 1)
    ELSE value

getContentType(details) ==
  LET hs == details.responseHeaders IN
  IF \E h \in 1..Len(hs) : toLowerCase(hs[h].name) = H_contentType
    THEN beforeSemicolon(
           hs[CHOOSE h \in 1..Len(hs) :
                /\ toLowerCase(hs[h].name) = H_contentType
                /\ \A g \in 1..(h - 1) : toLowerCase(hs[g].name) # H_contentType].value)
    ELSE S_unknown

\* parseSearchParams: params[key] = value for every entry, in order; the
\* object keeps a key at the place of its first entry with its last value
parseSearchParams(search) ==
  LET keys == SetOrder([q \in 1..Len(search) |-> search[q][1]]) IN
  [k \in 1..Len(keys) |->
     << keys[k],
        search[CHOOSE q \in 1..Len(search) :
                 /\ search[q][1] = keys[k]
                 /\ \A r \in (q + 1)..Len(search) : search[r][1] # keys[k]][2] >>]

createEndpointFromRequest(details) ==
  [url          |-> details.url,
   method       |-> details.method,
   status       |-> details.statusCode,
   contentType  |-> getContentType(details),
   hostname     |-> details.url.hostname,
   pathname     |-> details.url.pathname,
   searchParams |-> parseSearchParams(details.url.search),
   headers      |-> << >>,
   responseSize |-> 0]

\* the sensitive list of sanitizeHeaders
sensitive ==
  { << "a","u","t","h","o","r","i","z","a","t","i","o","n" >>,
    << "c","o","o","k","i","e" >>,
    << "x","-","a","p","i","-","k","e","y" >>,
    << "x","-","c","s","r","f","-","t","o","k","e","n" >>,
    << "x","-","a","u","t","h","-","t","o","k","e","n" >>,
    << "x","-","a","c","c","e","s","s","-","t","o","k","e","n" >>,
    << "x","-","r","e","f","r","e","s","h","-","t","o","k","e","n" >> }

S_redacted == << "[", "R", "E", "D", "A", "C", "T", "E", "D", "]" >>

\* Object.fromEntries(headers.map(...)): a later entry of a name replaces an
\* earlier one
RECURSIVE sanitizeFrom(_,_,_)
sanitizeFrom(headers, index, acc) ==
  IF index > Len(headers) THEN acc
  ELSE sanitizeFrom(headers, index + 1,
         (headers[index].name :>
            (IF toLowerCase(headers[index].name) \in sensitive
               THEN S_redacted ELSE headers[index].value))
         @@ acc)

sanitizeHeaders(headers) == sanitizeFrom(headers, 1, << >>)

\* updateEndpointHeaders: the first endpoint with that url gets the headers
\* merged over its own; the list is returned unchanged when there is none
updateEndpointHeaders(endpoints, url, headers) ==
  IF \E n \in 1..Len(endpoints) : endpoints[n].url = url
    THEN LET first == CHOOSE n \in 1..Len(endpoints) :
                        /\ endpoints[n].url = url
                        /\ \A m \in 1..(n - 1) : endpoints[m].url # url
         IN  [endpoints EXCEPT ![first].headers = headers @@ endpoints[first].headers]
    ELSE endpoints

(***************************************************************************)
(* The OpenAPIGenerator copy of background.js and the YAML conversion.     *)
(*                                                                         *)
(* The document is kept as the ordered tree that Object.entries walks: an  *)
(* object is the sequence of its [key, value] entries in insertion order,  *)
(* an array the sequence of its items.  A scalar and a key carry the kind  *)
(* of value they hold: "lit" a string literal of the source, "chars" a     *)
(* string computed from an observation, "url" a base url, "bool" a boolean.*)
(***************************************************************************)
Lit(v) == [t |-> "scalar", kind |-> "lit", v |-> v]

Chars(v) == [t |-> "scalar", kind |-> "chars", v |-> v]

Bool(v) == [t |-> "scalar", kind |-> "bool", v |-> v]

Obj(entries) == [t |-> "object", entries |-> entries]

Arr(items) == [t |-> "array", items |-> items]

Entry(key, value) == [key |-> key, value |-> value]

LitKey(v) == [kind |-> "lit", v |-> v]

CharsKey(v) == [kind |-> "chars", v |-> v]

SameKey(a, b) == a.kind = b.kind /\ a.v = b.v

HasKey(obj, key) == \E e \in 1..Len(obj.entries) : SameKey(obj.entries[e].key, key)

GetKey(obj, key) ==
  obj.entries[CHOOSE e \in 1..Len(obj.entries) : SameKey(obj.entries[e].key, key)].value

\* obj[key] = value: a present key keeps its place
SetKey(obj, key, value) ==
  IF HasKey(obj, key)
    THEN Obj([e \in 1..Len(obj.entries) |->
                IF SameKey(obj.entries[e].key, key)
                  THEN Entry(key, value) ELSE obj.entries[e]])
    ELSE Obj(Append(obj.entries, Entry(key, value)))

\* normalizePath of the copy: numeric segments only
BG_normalizePath(pathname) == replaceAll(pathname, "digits", IdRepl, FALSE)

BG_generateOperationTags(pathname) ==
  LET segments == pathSegments(pathname) IN
  IF Len(segments) > 0 THEN Arr(<< Chars(segments[1]) >>) ELSE Arr(<< Lit("default") >>)

BG_generateOperationSummary(endpoint) ==
  Chars(toUpperCase(endpoint.method) \o << " " >> \o extractResourceName(endpoint.pathname))

\* extractPathParameters of the copy keeps the numeric segments only
BG_generateParameters(endpoint) ==
  LET numeric == SelectSeq(split(endpoint.pathname), LAMBDA seg : Matches("digits", seg))
      sp      == endpoint.searchParams
  IN  Arr([i \in 1..Len(numeric) |->
             Obj(<< Entry(LitKey("name"), Lit("id")),
                    Entry(LitKey("in"), Lit("path")),
                    Entry(LitKey("required"), Bool(TRUE)),
                    Entry(LitKey("schema"),
                          Obj(<< Entry(LitKey("type"), Lit("integer")) >>)) >>)]
          \o
          [i \in 1..Len(sp) |->
             Obj(<< Entry(LitKey("name"), Chars(sp[i][1])),
                    Entry(LitKey("in"), Lit("query")),
                    Entry(LitKey("required"), Bool(FALSE)),
                    Entry(LitKey("schema"),
                          Obj(<< Entry(LitKey("type"),
                                       Lit(inferParameterType(sp[i][2]).type)) >>)),
                    Entry(LitKey("example"), Chars(sp[i][2])) >>)])

getStatusDescription(status) ==
  CASE status = 200 -> "OK"
    [] status = 201 -> "Created"
    [] status = 400 -> "Bad Request"
    [] status = 401 -> "Unauthorized"
    [] status = 403 -> "Forbidden"
    [] status = 404 -> "Not Found"
    [] status = 500 -> "Internal Server Error"
    [] OTHER        -> "Response"

BG_generateResponses(endpoint) ==
  Obj(<< Entry(CharsKey(NatToStr(endpoint.status)),
           Obj(<< Entry(LitKey("description"),
                        Lit(getStatusDescription(endpoint.status))),
                  Entry(LitKey("content"),
                    Obj(<< Entry(LitKey("application/json"),
                             Obj(<< Entry(LitKey("schema"),
                                      Obj(<< Entry(LitKey("type"),
                                                   Lit("object")) >>)) >>)) >>)) >>)) >>)

\* generateUniqueOperationId of the copy (its prefix table lacks HEAD and
\* OPTIONS, which the fallback lower-cases to the same words) is the library's
BG_generateOperation(endpoint, cache) ==
  Obj(<< Entry(LitKey("operationId"),
               Chars(generateUniqueOperationId(endpoint.method, endpoint.pathname, cache))),
         Entry(LitKey("tags"), BG_generateOperationTags(endpoint.pathname)),
         Entry(LitKey("summary"), BG_generateOperationSummary(endpoint)),
         Entry(LitKey("parameters"), BG_generateParameters(endpoint)),
         Entry(LitKey("responses"), BG_generateResponses(endpoint)) >>)

\* generatePaths of the copy: the forEach over endpoints[index..], threading
\* the paths object and the operationIdCache of the new generator
RECURSIVE BG_generatePathsFrom(_,_,_,_)
BG_generatePathsFrom(endpoints, index, paths, cache) ==
  IF index > Len(endpoints) THEN paths
  ELSE LET endpoint  == endpoints[index]
           path      == CharsKey(BG_normalizePath(endpoint.pathname))
           method    == CharsKey(toLowerCase(endpoint.method))
           operation == BG_generateOperation(endpoint, cache)
           item      == IF HasKey(paths, path) THEN GetKey(paths, path) ELSE Obj(<< >>)
       IN BG_generatePathsFrom(endpoints, index + 1,
            SetKey(paths, path, SetKey(item, method, operation)),
            cache \cup {GetKey(operation, LitKey("operationId")).v})

BG_determineBaseURL(endpoints) ==
  IF Len(endpoints) = 0 THEN [t |-> "scalar", kind |-> "url", v |-> ExampleCom]
  ELSE IF endpoints[1].url.parseable
    THEN [t |-> "scalar", kind |-> "url",
          v |-> << endpoints[1].url.protocol, endpoints[1].url.hostname, "" >>]
    ELSE [t |-> "scalar", kind |-> "url", v |-> ExampleCom]

BG_generateServers(baseURL, endpoints) ==
  Arr(<< Obj(<< Entry(LitKey("url"), baseURL) >>) >>)

BG_generateInfo ==
  Obj(<< Entry(LitKey("title"), Lit("Discovered API")),
         Entry(LitKey("version"), Lit("0.1.0")),
         Entry(LitKey("description"),
               Lit("API discovered automatically by Chrome Extension")) >>)

BG_generateComponents ==
  Obj(<< Entry(LitKey("schemas"),
           Obj(<< Entry(LitKey("Error"),
                    Obj(<< Entry(LitKey("type"), Lit("object")),
                           Entry(LitKey("properties"),
                             Obj(<< Entry(LitKey("error"),
                                      Obj(<< Entry(LitKey("type"), Lit("string")) >>)),
                                    Entry(LitKey("code"),
                                      Obj(<< Entry(LitKey("type"),
                                                   Lit("string")) >>)) >>)) >>)) >>)) >>)

BG_generateTags ==
  Arr(<< Obj(<< Entry(LitKey("name"), Lit("default")),
                Entry(LitKey("description"), Lit("Default operations")) >>) >>)

\* generateOpenAPISpec of the copy, for a non-empty endpoint list
BG_generateOpenAPISpec(endpoints) ==
  Obj(<< Entry(LitKey("openapi"), Lit("3.0.3")),
         Entry(LitKey("info"), BG_generateInfo),
         Entry(LitKey("servers"),
               BG_generateServers(BG_determineBaseURL(endpoints), endpoints)),
         Entry(LitKey("paths"), BG_generatePathsFrom(endpoints, 1, Obj(<< >>), {})),
         Entry(LitKey("components"), BG_generateComponents),
         Entry(LitKey("tags"), BG_generateTags) >>)

\* `${item}` for an item of an array: a scalar prints its value, an object
\* prints as "[object Object]", an array as its items joined by commas
RECURSIVE itemText(_)
itemText(item) ==
  IF item.t = "scalar" THEN << [kind |-> item.kind, v |-> item.v] >>
  ELSE IF item.t = "object" THEN << [kind |-> "lit", v |-> "[object Object]"] >>
  ELSE Flatten([i \in 1..Len(item.items) |->
                  (IF i = 1 THEN << >> ELSE << [kind |-> "lit", v |-> ","] >>)
                  \o itemText(item.items[i])])

\* objectToYAML: the text as the sequence of its lines; a line is
\* "<indent>key:", "<indent>key: value" or "<indent>- item", where item is
\* the text of `${item}` in pieces
RECURSIVE objectToYAML(_,_)
objectToYAML(obj, indent) ==
  Flatten([e \in 1..Len(obj.entries) |->
    LET key   == obj.entries[e].key
        value == obj.entries[e].value
    IN  IF value.t = "object"
          THEN << [indent |-> indent, key |-> key] >> \o objectToYAML(value, indent + 1)
        ELSE IF value.t = "array"
          THEN << [indent |-> indent, key |-> key] >>
               \o [i \in 1..Len(value.items) |->
                     [indent |-> indent, item |-> itemText(value.items[i])]]
        ELSE << [indent |-> indent, key |-> key,
                 value |-> [kind |-> value.kind, v |-> value.v]] >>])

convertToYAML(obj) == objectToYAML(obj, 0)

\* buildOpenAPI: the {yaml, json} answer, given this.endpoints.  json is the
\* document itself: JSON.stringify writes every key and value of the tree
buildOpenAPI(endpoints) ==
  IF Len(endpoints) = 0
    THEN [empty |-> TRUE]
    ELSE LET openAPISpec == BG_generateOpenAPISpec(endpoints) IN
         [empty |-> FALSE, yaml |-> convertToYAML(openAPISpec), json |-> openAPISpec]

(***************************************************************************)
(* The requests the browser reports and what an earlier session stored.    *)
(***************************************************************************)
\* a webRequest details object; onBeforeSendHeaders reads its requestHeaders,
\* onCompleted its statusCode and responseHeaders
Details(type, method, url, statusCode, requestHeaders, responseHeaders) ==
  [type |-> type, method |-> method, url |-> url, statusCode |-> statusCode,
   initiator |-> FALSE,
   requestHeaders |-> requestHeaders, responseHeaders |-> responseHeaders]

P_page == << "p", "a", "g", "e" >>

P_limit == << "l", "i", "m", "i", "t" >>

H_Accept == << "A", "c", "c", "e", "p", "t" >>

H_ContentType == << "C", "o", "n", "t", "e", "n", "t", "-", "T", "y", "p", "e" >>

V_secret == << "s", "e", "c", "r", "e", "t" >>

V_any == << "*", "/", "*" >>

V_jsonUtf8 ==
  << "a", "p", "p", "l", "i", "c", "a", "t", "i", "o", "n", "/", "j", "s", "o", "n",
     ";", " ", "c", "h", "a", "r", "s", "e", "t", "=", "u", "t", "f", "-", "8" >>

S_logo == << "l", "o", "g", "o" >>

S_v1 == << "v", "1" >>

B_com == << "b", ".", "c", "o", "m" >>

GetUser ==
  Details("xmlhttprequest", M_GET, BUrl(B_com, << S_api, S_users, S_42 >>, << >>), 200,
          << [name |-> H_Authorization, value |-> V_secret] >>,
          << [name |-> H_ContentType, value |-> V_jsonUtf8] >>)

PostUser ==
  Details("xmlhttprequest", M_POST, BUrl(B_com, << S_api, S_users >>, << >>), 201,
          << [name |-> H_Accept, value |-> V_any] >>, << >>)

H_XSessionToken ==
  << "X", "-", "S", "e", "s", "s", "i", "o", "n", "-", "T", "o", "k", "e", "n" >>

ListItems ==
  Details("other", M_GET, BUrl(B_com, << S_v1, S_posts >>, << << P_page, S_42 >> >>), 200,
          << [name |-> H_XSessionToken, value |-> V_secret] >>, << >>)

GetLogo ==
  Details("image", M_GET, BUrl(B_com, << S_logo >>, << >>), 200, << >>, << >>)

DetailsPool == { GetUser, PostUser, ListItems, GetLogo }

\* nothing stored, or the state an earlier session left behind
StoredStates ==
  { [isDiscovering |-> FALSE, endpoints |-> << >>],
    [isDiscovering |-> TRUE, endpoints |-> << createEndpointFromRequest(PostUser) >>] }

(***************************************************************************)
(* State.                                                                  *)
(***************************************************************************)
VARIABLES
  endpoints,         \* the observation sequence the caller holds
  operationIdCache,  \* this.operationIdCache of the generator instance
  schemaCache,       \* keys of this.schemaCache of the generator instance
  calls,             \* the generateOpenAPISpec calls made, in order: the input,
                     \* whether the call raised, the document returned, and as
                     \* history the cache before the call and the ids assigned
  templated,         \* the literal path taken up for templating (at most one),
                     \* with its three templates once they are computed
  inferred,          \* the sample list handed to APIAnalyzer.inferParameterTypes
                     \* (at most one), with the result once it is computed
  analysis,          \* the last APIAnalyzer.analyzeEndpoints call (at most one):
                     \* its input and what it returned, or that it raised
  bg,                \* the APIDiscoveryBackground instance: isDiscovering,
                     \* endpoints, and the chrome.storage.local.get of its
                     \* loadState (pending or not, and what it read)
  storage,           \* chrome.storage.local: isDiscovering and endpoints
  apiEvents,         \* the API_EVENT messages sent by notifyPopup, in order
  built,             \* the answer to the last BUILD_OPENAPI (at most one)
  lastEvent,         \* history of the last webRequest event: how its handler
                     \* ended ("none" before the first event, "off" returned
                     \* because isDiscovering was false, "skipped" returned
                     \* because it is no API request, "handled" otherwise) and
                     \* whether it changed the instance, the storage or the
                     \* messages sent
  requests,          \* the requests of the pages that are followed from their
                     \* onBeforeSendHeaders event on: the details, the phase
                     \* ("sent", "completed"), whether discovery was on when
                     \* the headers were seen and, as history, the place in
                     \* this.endpoints of the record created for the request
                     \* (0 when there is none)
  popup,             \* the APIDiscoveryPopup instance and what its page shows:
                     \* isDiscovering, endpoints, the endpointCount text, the
                     \* start button shown or not, the export buttons disabled
                     \* or not, and how many of the API_EVENT messages of
                     \* apiEvents have reached its listener
  rpc,               \* the messages the popup has sent with sendMessage, in
                     \* order: the type, the phase ("sent", "answered" once
                     \* the background has called sendResponse, "done" once
                     \* the await has resumed) and the response
  retry              \* the run of Utils.retry: its arguments maxAttempts and
                     \* baseDelay, the loop variable attempt, where the run
                     \* stands ("idle" before the first run, "calling" while
                     \* the promise of fn() is awaited, "waiting" while the
                     \* timer of the backoff is awaited, "resolved",
                     \* "rejected"), the value or error it settled with and,
                     \* as history, how each call of fn ended and each delay
                     \* handed to setTimeout

vars ==
  << endpoints, operationIdCache, schemaCache, calls, templated, inferred, analysis,
     bg, storage, apiEvents, built, lastEvent, requests, popup, rpc, retry >>

\* the variables of the background script
bgVars == << bg, storage, apiEvents, built, lastEvent >>

\* the variables of the followed requests, of the popup and of Utils.retry
extVars == << requests, popup, rpc, retry >>

\* the variables of the library classes
otherVars ==
  << endpoints, operationIdCache, schemaCache, calls, templated, inferred, analysis >>

\* the variables of the APIAnalyzer operations
anaVars == << inferred, analysis >>

\* new OpenAPIGenerator(), no observation yet
Init ==
  /\ endpoints = << >>
  /\ operationIdCache = {}
  /\ schemaCache = {}
  /\ calls = << >>
  /\ templated = << >>
  /\ inferred = << >>
  /\ analysis = << >>
  /\ storage \in StoredStates
  /\ bg = [isDiscovering |-> FALSE, endpoints |-> << >>,
           load |-> [pending |-> TRUE, result |-> storage]]
  /\ apiEvents = << >>
  /\ built = << >>
  /\ lastEvent = [outcome |-> "none", changed |-> FALSE]
  /\ requests = << >>
  /\ popup = [open |-> FALSE]
  /\ rpc = << >>
  /\ retry = [phase |-> "idle"]

\* one more observation is captured
AddObservation ==
  /\ Len(endpoints) < MaxObs
  /\ \E o \in ObsPool : endpoints' = Append(endpoints, o)
  /\ UNCHANGED << operationIdCache, schemaCache, calls, templated >>
  /\ UNCHANGED anaVars
  /\ UNCHANGED bgVars
  /\ UNCHANGED extVars

\* generator.generateOpenAPISpec(endpoints)
Generate ==
  /\ Len(calls) < MaxCalls
  /\ LET r == generateOpenAPISpec(endpoints, operationIdCache, schemaCache) IN
       /\ calls' = Append(calls, [input       |-> endpoints,
                                  raised      |-> r.raised,
                                  doc         |-> r.doc,
                                  cacheBefore |-> operationIdCache,
                                  assigned    |-> r.assigned])
       /\ operationIdCache' = r.operationIdCache
       /\ schemaCache' = r.schemaCache
  /\ UNCHANGED << endpoints, templated >>
  /\ UNCHANGED anaVars
  /\ UNCHANGED bgVars
  /\ UNCHANGED extVars

Next == AddObservation \/ Generate

Spec == Init /\ [][Next]_vars

(***************************************************************************)
(* Observations of several origins: the same GET /users seen on hosts,     *)
(* schemes and ports that differ.                                          *)
(***************************************************************************)
UrlPool ==
  { ApiX,
    Url("https:", "api.x.com", "8443"),
    Url("https:", "cdn.x.com", ""),
    Url("http:", "localhost", "3000"),
    Url("http:", "localhost", "4000") }

\* one more observation is captured, from any of the origins
AddHostObservation ==
  /\ Len(endpoints) < MaxObs
  /\ \E u \in UrlPool :
       endpoints' = Append(endpoints, Endpoint(u, << S_users >>, M_GET, 200, NoHeaders))
  /\ UNCHANGED << operationIdCache, schemaCache, calls, templated >>
  /\ UNCHANGED anaVars
  /\ UNCHANGED bgVars
  /\ UNCHANGED extVars

NextSrv == AddHostObservation \/ Generate

SpecSrv == Init /\ [][NextSrv]_vars

(***************************************************************************)
(* Observations with query strings: GET /users and GET /users/42 seen with *)
(* different query parameters.  searchParams is the sequence of the        *)
(* [name, value] entries of the object.                                    *)
(***************************************************************************)
WithQuery(endpoint, searchParams) == [endpoint EXCEPT !.searchParams = searchParams]

QueryPool ==
  { WithQuery(Endpoint(ApiX, << S_users >>, M_GET, 200, NoHeaders), sp) :
      sp \in { << >>,
               << << P_page, << "5" >> >> >>,
               << << P_page, << "a", "b", "c" >> >> >>,
               << << P_limit, << "1", "0" >> >> >> } }
  \cup
  { WithQuery(Endpoint(ApiX, << S_users, S_42 >>, M_GET, 200, NoHeaders),
              << << P_page, << "5" >> >> >>) }

\* one more observation is captured, with its query parameters
AddQueryObservation ==
  /\ Len(endpoints) < MaxObs
  /\ \E o \in QueryPool : endpoints' = Append(endpoints, o)
  /\ UNCHANGED << operationIdCache, schemaCache, calls, templated >>
  /\ UNCHANGED anaVars
  /\ UNCHANGED bgVars
  /\ UNCHANGED extVars

NextQry == AddQueryObservation \/ Generate

SpecQry == Init /\ [][NextQry]_vars

(***************************************************************************)
(* Templating alone: a literal path is handed to APIAnalyzer.normalizePath,*)
(* APIAnalyzer.extractEndpointPattern and OpenAPIGenerator.normalizePath.  *)
(***************************************************************************)
\* an ObjectId written in upper case, and an identifier of 24 decimal digits
S_objectIdUpper == toUpperCase(S_objectId)

S_digits24 == [i \in 1..24 |-> DigitChars[(i % 10) + 1]]

TplSegs == {S_users, S_posts, S_42, S_uuid, S_objectId, S_objectIdUpper, S_digits24}

SegSeqs(n) == UNION {[1..k -> TplSegs] : k \in 1..n}

LiteralPaths == {PathOf(segs) : segs \in SegSeqs(MaxSegs)}

\* a literal path is taken up for templating
TakePath ==
  /\ templated = << >>
  /\ \E p \in LiteralPaths : templated' = << [path |-> p] >>
  /\ UNCHANGED << endpoints, operationIdCache, schemaCache, calls >>
  /\ UNCHANGED anaVars
  /\ UNCHANGED bgVars
  /\ UNCHANGED extVars

\* the path taken up is templated by the three functions
TemplatePath ==
  /\ Len(templated) = 1
  /\ "generator" \notin DOMAIN templated[1]
  /\ templated' = << [path      |-> templated[1].path,
                      analyzer  |-> APIAnalyzer_normalizePath(templated[1].path),
                      pattern   |-> extractEndpointPattern(templated[1].path),
                      generator |-> normalizePath(templated[1].path)] >>
  /\ UNCHANGED << endpoints, operationIdCache, schemaCache, calls >>
  /\ UNCHANGED anaVars
  /\ UNCHANGED bgVars
  /\ UNCHANGED extVars

NextTpl == TakePath \/ TemplatePath

SpecTpl == Init /\ [][NextTpl]_vars

(***************************************************************************)
(* Type inference alone: a list of sample values of one query parameter is *)
(* handed to APIAnalyzer.inferParameterTypes.                              *)
(***************************************************************************)
SampleValues ==
  { << "5" >>, << "1", "0" >>, << "a", "b", "c" >>, << "x" >>,
    << "t", "r", "u", "e" >>, << >> }

SampleLists == UNION {[1..k -> SampleValues] : k \in 0..MaxSamples}

\* a sample list is taken up
TakeSamples ==
  /\ inferred = << >>
  /\ \E l \in SampleLists : inferred' = << [samples |-> l] >>
  /\ UNCHANGED << endpoints, operationIdCache, schemaCache, calls, templated, analysis >>
  /\ UNCHANGED bgVars
  /\ UNCHANGED extVars

\* analyzer.inferParameterTypes(samples)
InferTypes ==
  /\ Len(inferred) = 1
  /\ "result" \notin DOMAIN inferred[1]
  /\ inferred' = << [samples |-> inferred[1].samples,
                     result  |-> inferParameterTypes(inferred[1].samples)] >>
  /\ UNCHANGED << endpoints, operationIdCache, schemaCache, calls, templated, analysis >>
  /\ UNCHANGED bgVars
  /\ UNCHANGED extVars

NextInfer == TakeSamples \/ InferTypes

SpecInfer == Init /\ [][NextInfer]_vars

(***************************************************************************)
(* Analysis alone: observations of two hosts are handed to                 *)
(* APIAnalyzer.analyzeEndpoints.                                           *)
(***************************************************************************)
A_com == << "a", ".", "c", "o", "m" >>

A_co == << "a", ".", "c", "o" >>

S_1 == << "1" >>

S_2 == << "2" >>

S_m == << "m" >>

AnaPool ==
  { AObs(AUrl(A_com, << S_api, S_users, S_1 >>), M_GET, 200),
    AObs(AUrl(A_com, << S_api, S_users, S_2, S_posts >>), M_GET, 200),
    AObs(AUrl(A_com, << S_api, S_posts >>), M_POST, 201),
    AObs(AUrl(A_com, << S_m >>), M_GET, 200),
    AObs(AUrl(A_com, << >>), M_GET, 200),
    AObs(AUrl(A_co, << S_m >>), M_GET, 404),
    AObs(BadUrl, M_GET, 500) }

\* one more observation is handed to the analyzer's caller
AddAnalyzerObservation ==
  /\ Len(endpoints) < MaxAnaObs
  /\ \E o \in AnaPool : endpoints' = Append(endpoints, o)
  /\ UNCHANGED << operationIdCache, schemaCache, calls, templated, inferred, analysis >>
  /\ UNCHANGED bgVars
  /\ UNCHANGED extVars

\* analyzer.analyzeEndpoints(endpoints)
Analyze ==
  /\ IF analysis = << >> THEN TRUE ELSE analysis[1].input # endpoints
  /\ analysis' = << [input |-> endpoints] @@ APIAnalyzer_analyzeEndpoints(endpoints) >>
  /\ UNCHANGED << endpoints, operationIdCache, schemaCache, calls, templated, inferred >>
  /\ UNCHANGED bgVars
  /\ UNCHANGED extVars

NextAna == AddAnalyzerObservation \/ Analyze

SpecAna == Init /\ [][NextAna]_vars

(***************************************************************************)
(* The background script: the popup's messages, the webRequest events and  *)
(* the completion of the loadState the constructor started.                *)
(***************************************************************************)
\* saveState: chrome.storage.local.set of the instance's two fields
saveState(b) == [isDiscovering |-> b.isDiscovering, endpoints |-> b.endpoints]

\* the await of loadState resumes with what the get read
LoadStateDone ==
  /\ bg.load.pending
  /\ bg' = [bg EXCEPT !.isDiscovering = bg.load.result.isDiscovering,
                      !.endpoints = bg.load.result.endpoints,
                      !.load.pending = FALSE]
  /\ UNCHANGED << storage, apiEvents, built, lastEvent >>
  /\ UNCHANGED otherVars
  /\ UNCHANGED extVars

\* message START_DISCOVERY
StartDiscovery ==
  /\ bg' = [bg EXCEPT !.isDiscovering = TRUE]
  /\ storage' = saveState(bg')
  /\ UNCHANGED << apiEvents, built, lastEvent >>
  /\ UNCHANGED otherVars
  /\ UNCHANGED extVars

\* message STOP_DISCOVERY
StopDiscovery ==
  /\ bg' = [bg EXCEPT !.isDiscovering = FALSE]
  /\ storage' = saveState(bg')
  /\ UNCHANGED << apiEvents, built, lastEvent >>
  /\ UNCHANGED otherVars
  /\ UNCHANGED extVars

\* message CLEAR_DATA
ClearData ==
  /\ bg' = [bg EXCEPT !.endpoints = << >>]
  /\ storage' = saveState(bg')
  /\ UNCHANGED << apiEvents, built, lastEvent >>
  /\ UNCHANGED otherVars
  /\ UNCHANGED extVars

\* how a handler leaves: the two early returns and the normal end
eventOutcome(isDiscovering, details) ==
  IF ~isDiscovering THEN "off"
  ELSE IF ~isAPIRequest(details) THEN "skipped"
  ELSE "handled"

\* a handleWebRequest that captures whether or not discovery is on
HandleWebRequest_Always ==
  /\ Len(apiEvents) < MaxCaptured
  /\ \E details \in DetailsPool :
       /\ IF ~isAPIRequest(details)
            THEN UNCHANGED << bg, storage, apiEvents >>
            ELSE LET endpoint == createEndpointFromRequest(details) IN
                 /\ bg' = [bg EXCEPT !.endpoints = Append(bg.endpoints, endpoint)]
                 /\ storage' = saveState(bg')
                 /\ apiEvents' = Append(apiEvents, endpoint)
       /\ lastEvent' = [outcome |-> eventOutcome(bg.isDiscovering, details),
                        changed |-> << bg', storage', apiEvents' >>
                                      # << bg, storage, apiEvents >>]
  /\ UNCHANGED built
  /\ UNCHANGED otherVars
  /\ UNCHANGED extVars

\* webRequest.onCompleted: handleWebRequest(details)
HandleWebRequest ==
  /\ Len(apiEvents) < MaxCaptured
  /\ \E details \in DetailsPool :
       /\ IF ~bg.isDiscovering \/ ~isAPIRequest(details)
            THEN UNCHANGED << bg, storage, apiEvents >>
            ELSE LET endpoint == createEndpointFromRequest(details) IN
                 /\ bg' = [bg EXCEPT !.endpoints = Append(bg.endpoints, endpoint)]
                 /\ storage' = saveState(bg')
                 /\ apiEvents' = Append(apiEvents, endpoint)
       /\ lastEvent' = [outcome |-> eventOutcome(bg.isDiscovering, details),
                        changed |-> << bg', storage', apiEvents' >>
                                      # << bg, storage, apiEvents >>]
  /\ UNCHANGED built
  /\ UNCHANGED otherVars
  /\ UNCHANGED extVars

\* webRequest.onBeforeSendHeaders: handleRequestHeaders(details)
HandleRequestHeaders ==
  /\ UNCHANGED apiEvents
  /\ \E details \in DetailsPool :
       /\ IF ~bg.isDiscovering \/ ~isAPIRequest(details)
            THEN UNCHANGED << bg, storage >>
            ELSE LET updated == updateEndpointHeaders(bg.endpoints, details.url,
                                                      sanitizeHeaders(details.requestHeaders))
                 IN  /\ bg' = [bg EXCEPT !.endpoints = updated]
                     /\ storage' = IF \E n \in 1..Len(bg.endpoints) :
                                        bg.endpoints[n].url = details.url
                                     THEN saveState(bg') ELSE storage
       /\ lastEvent' = [outcome |-> eventOutcome(bg.isDiscovering, details),
                        changed |-> << bg', storage' >> # << bg, storage >>]
  /\ UNCHANGED built
  /\ UNCHANGED otherVars
  /\ UNCHANGED extVars

\* message BUILD_OPENAPI
BuildOpenAPI ==
  /\ built' = << [input |-> bg.endpoints] @@ buildOpenAPI(bg.endpoints) >>
  /\ UNCHANGED << bg, storage, apiEvents, lastEvent >>
  /\ UNCHANGED otherVars
  /\ UNCHANGED extVars

\* the state of the background: every message and event that changes it
NextBg ==
  \/ LoadStateDone
  \/ StartDiscovery
  \/ StopDiscovery
  \/ ClearData
  \/ HandleWebRequest
  \/ HandleRequestHeaders

SpecBg == Init /\ [][NextBg]_vars

(***************************************************************************)
(* Requests followed from onBeforeSendHeaders to onCompleted.  The browser *)
(* raises onBeforeSendHeaders of a request before its onCompleted; the     *)
(* requests followed are those made once loadState has completed.          *)
(***************************************************************************)
GetUserAccept ==
  Details("xmlhttprequest", M_GET, BUrl(B_com, << S_api, S_users, S_42 >>, << >>), 200,
          << [name |-> H_Accept, value |-> V_any] >>,
          << [name |-> H_ContentType, value |-> V_jsonUtf8] >>)

RequestPool == { GetUser, GetUserAccept, PostUser }

\* a page sends a request: onBeforeSendHeaders, handleRequestHeaders(details)
OnBeforeSendHeaders ==
  /\ ~ bg.load.pending
  /\ Len(requests) < MaxRequests
  /\ \E details \in RequestPool :
       /\ requests' = Append(requests, [details |-> details, phase |-> "sent",
                                        discovering |-> bg.isDiscovering, record |-> 0])
       /\ IF ~bg.isDiscovering \/ ~isAPIRequest(details)
            THEN UNCHANGED << bg, storage >>
            ELSE LET updated == updateEndpointHeaders(bg.endpoints, details.url,
                                                      sanitizeHeaders(details.requestHeaders))
                 IN  /\ bg' = [bg EXCEPT !.endpoints = updated]
                     /\ storage' = IF \E n \in 1..Len(bg.endpoints) :
                                        bg.endpoints[n].url = details.url
                                     THEN saveState(bg') ELSE storage
  /\ UNCHANGED << apiEvents, built, lastEvent >>
  /\ UNCHANGED otherVars
  /\ UNCHANGED << popup, rpc, retry >>

\* a sent request completes: onCompleted, handleWebRequest(details)
OnCompleted ==
  /\ \E k \in 1..Len(requests) :
       /\ requests[k].phase = "sent"
       /\ LET details == requests[k].details IN
          IF ~bg.isDiscovering \/ ~isAPIRequest(details)
            THEN /\ requests' = [requests EXCEPT ![k].phase = "completed"]
                 /\ UNCHANGED << bg, storage, apiEvents >>
            ELSE LET endpoint == createEndpointFromRequest(details) IN
                 /\ bg' = [bg EXCEPT !.endpoints = Append(bg.endpoints, endpoint)]
                 /\ storage' = saveState(bg')
                 /\ apiEvents' = Append(apiEvents, endpoint)
                 /\ requests' = [requests EXCEPT ![k].phase = "completed",
                                                 ![k].record = Len(bg.endpoints) + 1]
  /\ UNCHANGED << built, lastEvent >>
  /\ UNCHANGED otherVars
  /\ UNCHANGED << popup, rpc, retry >>

NextReq ==
  \/ LoadStateDone
  \/ StartDiscovery
  \/ StopDiscovery
  \/ OnBeforeSendHeaders
  \/ OnCompleted

SpecReq == Init /\ [][NextReq]_vars

(***************************************************************************)
(* The popup (src/popup/popup.js) and its messages.  The background        *)
(* handles the popup's messages in the order they were sent and the popup  *)
(* resumes its awaits in that order; an API_EVENT message and a response   *)
(* travel separately and reach the popup in either order.                  *)
(***************************************************************************)
\* updateUI: the start button and the export buttons
updateUI(p) ==
  [p EXCEPT !.startShown = ~ p.isDiscovering,
            !.exportDisabled = IF p.isDiscovering THEN TRUE ELSE Len(p.endpoints) = 0]

\* DOMContentLoaded: new APIDiscoveryPopup(): bindEvents, loadState up to its
\* await, updateUI.  API_EVENT messages sent before are not received.
OpenPopup ==
  /\ ~ popup.open
  /\ Len(rpc) < MaxRpc
  /\ popup' = updateUI([open |-> TRUE, isDiscovering |-> FALSE, endpoints |-> << >>,
                        count |-> 0, startShown |-> TRUE, exportDisabled |-> TRUE,
                        received |-> Len(apiEvents)])
  /\ rpc' = Append(rpc, [type |-> "GET_STATE", phase |-> "sent", response |-> << >>])
  /\ UNCHANGED << requests, retry >>
  /\ UNCHANGED << bg, storage, apiEvents, built, lastEvent >>
  /\ UNCHANGED otherVars

\* a click on start, stop or clear data: the handler up to its await
Click ==
  /\ popup.open
  /\ Len(rpc) < MaxRpc
  /\ \E type \in {"START_DISCOVERY", "STOP_DISCOVERY", "CLEAR_DATA"} :
       rpc' = Append(rpc, [type |-> type, phase |-> "sent", response |-> << >>])
  /\ UNCHANGED << requests, popup, retry >>
  /\ UNCHANGED << bg, storage, apiEvents, built, lastEvent >>
  /\ UNCHANGED otherVars

\* the first message in that phase
firstInPhase(phase) ==
  CHOOSE i \in 1..Len(rpc) :
    /\ rpc[i].phase = phase
    /\ \A j \in 1..(i - 1) : rpc[j].phase # phase

\* the onMessage listener of the background handles a message of the popup
OnMessage ==
  /\ \E i \in 1..Len(rpc) : rpc[i].phase = "sent"
  /\ LET i    == firstInPhase("sent")
         type == rpc[i].type
     IN  /\ bg' = CASE type = "START_DISCOVERY" -> [bg EXCEPT !.isDiscovering = TRUE]
                    [] type = "STOP_DISCOVERY"  -> [bg EXCEPT !.isDiscovering = FALSE]
                    [] type = "CLEAR_DATA"      -> [bg EXCEPT !.endpoints = << >>]
                    [] OTHER                    -> bg
         /\ storage' = IF type = "GET_STATE" THEN storage ELSE saveState(bg')
         /\ rpc' = [rpc EXCEPT ![i].phase = "answered",
                               ![i].response =
                                  IF type = "GET_STATE"
                                    THEN [isDiscovering |-> bg.isDiscovering,
                                          endpoints |-> bg.endpoints]
                                    ELSE [success |-> TRUE]]
  /\ UNCHANGED << requests, popup, retry >>
  /\ UNCHANGED << apiEvents, built, lastEvent >>
  /\ UNCHANGED otherVars

\* what the popup does after an await of sendMessage: the rest of
\* startDiscovery, stopDiscovery, clearData or loadState
resume(p, type, response) ==
  CASE type = "START_DISCOVERY" -> updateUI([p EXCEPT !.isDiscovering = TRUE])
    [] type = "STOP_DISCOVERY"  -> updateUI([p EXCEPT !.isDiscovering = FALSE])
    [] type = "CLEAR_DATA"      -> [p EXCEPT !.endpoints = << >>, !.count = 0]
    [] OTHER -> [p EXCEPT !.isDiscovering = response.isDiscovering,
                          !.endpoints = response.endpoints,
                          !.count = Len(response.endpoints)]

\* the popup resumes the oldest answered await
Resume ==
  /\ \E i \in 1..Len(rpc) : rpc[i].phase = "answered"
  /\ LET i == firstInPhase("answered") IN
       /\ \A j \in 1..(i - 1) : rpc[j].phase = "done"
       /\ popup' = resume(popup, rpc[i].type, rpc[i].response)
       /\ rpc' = [rpc EXCEPT ![i].phase = "done"]
  /\ UNCHANGED << requests, retry >>
  /\ UNCHANGED << bg, storage, apiEvents, built, lastEvent >>
  /\ UNCHANGED otherVars

\* the onMessage listener of the popup receives the next API_EVENT
OnApiEvent ==
  /\ popup.open
  /\ popup.received < Len(apiEvents)
  /\ LET message == [type |-> "API_EVENT"] @@ apiEvents[popup.received + 1]
         pushed  == [popup EXCEPT !.endpoints = Append(popup.endpoints, message),
                                  !.received = popup.received + 1]
     IN  popup' = updateUI([pushed EXCEPT !.count = Len(pushed.endpoints)])
  /\ UNCHANGED << requests, rpc, retry >>
  /\ UNCHANGED << bg, storage, apiEvents, built, lastEvent >>
  /\ UNCHANGED otherVars

NextPop ==
  \/ LoadStateDone
  \/ HandleWebRequest
  \/ OpenPopup
  \/ Click
  \/ OnMessage
  \/ Resume
  \/ OnApiEvent

SpecPop == Init /\ [][NextPop]_vars

\* the export: what is captured, and the BUILD_OPENAPI answers for it
NextBuild ==
  \/ LoadStateDone
  \/ StartDiscovery
  \/ HandleWebRequest
  \/ BuildOpenAPI

SpecBuild == Init /\ [][NextBuild]_vars

(***************************************************************************)
(* Reading a returned document.                                            *)
(***************************************************************************)
CallIds == 1..Len(calls)

\* the <<template, method>> keys of the operations of a document
OperationKeys(doc) ==
  UNION {{<< p, m >> : m \in DOMAIN doc.paths[p]} : p \in DOMAIN doc.paths}

OperationAt(doc, k) == doc.paths[k[1]][k[2]]

\* the observations of input that map to the key k
Contributing(input, k) ==
  {n \in 1..Len(input) :
     /\ normalizePath(input[n].pathname) = k[1]
     /\ toLowerCase(input[n].method) = k[2]}

\* the schema names referenced by an operation
RefsOfOperation(op) ==
  {op.responses[r].content[c].schema.ref :
     << r, c >> \in UNION {{<< r, c >> : c \in DOMAIN op.responses[r].content} :
                           r \in DOMAIN op.responses}}
  \cup (IF "requestBody" \in DOMAIN op
          THEN {op.requestBody.content[c].schema.ref :
                  c \in DOMAIN op.requestBody.content}
          ELSE {})

RefsUnderPaths(doc) ==
  UNION {RefsOfOperation(OperationAt(doc, k)) : k \in OperationKeys(doc)}

HasBearerScheme(doc) ==
  /\ "securitySchemes" \in DOMAIN doc.components
  /\ "bearerAuth" \in DOMAIN doc.components.securitySchemes

(***************************************************************************)
(* C1.  GET /users/42 and GET /users/43 (both 200) give the single path    *)
(* "/users/{id}" with one get operation, operationId "getUsers" and one    *)
(* required integer path parameter named id.                               *)
(***************************************************************************)
C1_Input ==
  << Endpoint(ApiX, << S_users, S_42 >>, M_GET, 200, NoHeaders),
     Endpoint(ApiX, << S_users, S_43 >>, M_GET, 200, NoHeaders) >>

C1_Template == PathOf(<< S_users, << "{", "i", "d", "}" >> >>)

C1_GetUsers == << "g", "e", "t", "U", "s", "e", "r", "s" >>

C1_Shape(doc) ==
  /\ DOMAIN doc.paths = {C1_Template}
  /\ DOMAIN doc.paths[C1_Template] = {M_get}
  /\ LET op == doc.paths[C1_Template][M_get] IN
       /\ op.operationId = C1_GetUsers
       /\ Len(op.parameters) = 1
       /\ op.parameters[1].name = S_id
       /\ op.parameters[1].in = "path"
       /\ op.parameters[1].required
       /\ op.parameters[1].schema.type = "integer"

\* C1 as claimed, for the first call on a fresh generator: the document for
\* the two observations has the path /users/{id}, operationId getUsers and
\* the integer path parameter id
C1_Claim ==
  (Len(calls) >= 1 /\ calls[1].input = C1_Input)
    => (~ calls[1].raised /\ C1_Shape(calls[1].doc))

(***************************************************************************)
(* C2.  Two calls on the same generator with the same observation sequence *)
(* return identical documents.                                             *)
(***************************************************************************)
\* C2 as claimed: any two calls with equal input return equal documents
C2_Claim ==
  \A i, j \in CallIds :
    calls[i].input = calls[j].input => calls[i].doc = calls[j].doc

(***************************************************************************)
(* C3.  Every $ref under paths names a key of components.schemas.          *)
(***************************************************************************)
\* C3 as claimed: in every returned document each schema referenced under
\* paths is present in components.schemas
C3_Claim ==
  \A i \in CallIds :
    ~ calls[i].raised =>
      RefsUnderPaths(calls[i].doc) \subseteq DOMAIN calls[i].doc.components.schemas

(***************************************************************************)
(* C4.  The response map of an operation has one entry per distinct status *)
(* seen among the observations of its key, plus "4xx" once one of them is  *)
(* in the error range.                                                     *)
(***************************************************************************)
\* C4 as claimed: every status of every contributing observation is a key
\* of the operation's responses, and so is "4xx" when one of them is >= 400
C4_Claim ==
  \A i \in CallIds :
    ~ calls[i].raised =>
      \A k \in OperationKeys(calls[i].doc) :
        LET keys == DOMAIN OperationAt(calls[i].doc, k).responses
            obs  == Contributing(calls[i].input, k)
        IN  /\ \A n \in obs : NatToStr(calls[i].input[n].status) \in keys
            /\ (\E n \in obs : calls[i].input[n].status >= 400) => S_4xx \in keys

(***************************************************************************)
(* C5.  Observations sharing template and case-insensitive method give     *)
(* exactly one operation record.                                           *)
(***************************************************************************)
\* C5: the operations of a returned document are exactly the distinct
\* (template, lower-cased method) pairs of its input, one record for each,
\* whatever the number of observations behind a pair
C5_OneOperationPerKey ==
  \A i \in CallIds :
    ~ calls[i].raised =>
      /\ OperationKeys(calls[i].doc) =
           {<< normalizePath(calls[i].input[n].pathname),
               toLowerCase(calls[i].input[n].method) >> : n \in 1..Len(calls[i].input)}
      /\ \A n \in 1..Len(calls[i].input) :
           Cardinality({k \in OperationKeys(calls[i].doc) :
                          n \in Contributing(calls[i].input, k)}) = 1

\* two different observations (other literal path, or other method case)
\* of one logical endpoint were merged into a single operation
C5_Witness ==
  \E i \in CallIds :
    /\ ~ calls[i].raised
    /\ Len(calls[i].input) = 2
    /\ \/ calls[i].input[1].pathname # calls[i].input[2].pathname
       \/ calls[i].input[1].method # calls[i].input[2].method
    /\ Cardinality(OperationKeys(calls[i].doc)) = 1

(***************************************************************************)
(* C6.  operationIds are unique within a document; a taken base name gets  *)
(* the lowest positive integer suffix not yet used, in processing order.   *)
(***************************************************************************)
\* the id the uniqueness rule prescribes for base, given the ids in use
IsLowestUnused(id, base, used) ==
  IF base \notin used
    THEN id = base
    ELSE \E c \in 1..(Cardinality(used) + 1) :
           /\ id = base \o NatToStr(c)
           /\ id \notin used
           /\ \A d \in 1..(c - 1) : (base \o NatToStr(d)) \in used

\* C6: no two operations of a document share an operationId, every
\* operationId of the document is one of the ids assigned during the call,
\* and the n-th id assigned is the base name of the n-th observation when
\* that is unused, else the base name with the lowest unused positive suffix
C6_UniqueOperationIds ==
  \A i \in CallIds :
    ~ calls[i].raised =>
      /\ \A k1, k2 \in OperationKeys(calls[i].doc) :
           k1 # k2 => OperationAt(calls[i].doc, k1).operationId
                        # OperationAt(calls[i].doc, k2).operationId
      /\ \A k \in OperationKeys(calls[i].doc) :
           \E n \in Contributing(calls[i].input, k) :
             OperationAt(calls[i].doc, k).operationId = calls[i].assigned[n]
      /\ Len(calls[i].assigned) = Len(calls[i].input)
      /\ \A n \in 1..Len(calls[i].assigned) :
           IsLowestUnused(
             calls[i].assigned[n],
             operationIdBase(calls[i].input[n].method, calls[i].input[n].pathname),
             calls[i].cacheBefore \cup {calls[i].assigned[m] : m \in 1..(n - 1)})

\* a document with two operations whose base names collide, one of which
\* was given the suffix 2 because the base name and suffix 1 were taken
C6_Witness ==
  \E i \in CallIds :
    /\ ~ calls[i].raised
    /\ Cardinality(OperationKeys(calls[i].doc)) = 2
    /\ \E n \in 1..Len(calls[i].assigned) :
         LET base == operationIdBase(calls[i].input[n].method,
                                     calls[i].input[n].pathname)
         IN  /\ calls[i].assigned[n] = base \o NatToStr(2)
             /\ \E k \in OperationKeys(calls[i].doc) :
                  OperationAt(calls[i].doc, k).operationId = calls[i].assigned[n]

(***************************************************************************)
(* C7.  securitySchemes declares bearerAuth if and only if some operation  *)
(* has a non-empty security requirement.                                   *)
(***************************************************************************)
\* C7 as claimed: bearerAuth is declared exactly when an operation of the
\* document carries a security requirement
C7_Claim ==
  \A i \in CallIds :
    ~ calls[i].raised =>
      (HasBearerScheme(calls[i].doc)
         <=> \E k \in OperationKeys(calls[i].doc) :
               OperationAt(calls[i].doc, k).security # << >>)

(***************************************************************************)
(* C8.  An operation carries [{bearerAuth: []}] whenever any observation   *)
(* of its key has an authorization, api-key or token header.               *)
(***************************************************************************)
\* C8 as claimed: if any contributing observation has such a header, the
\* operation requires bearerAuth; and with an Authorization header the
\* document declares bearerAuth as http/bearer
C8_Claim ==
  \A i \in CallIds :
    ~ calls[i].raised =>
      \A k \in OperationKeys(calls[i].doc) :
        LET obs == Contributing(calls[i].input, k) IN
        /\ (\E n \in obs : \E h \in DOMAIN calls[i].input[n].headers : IsAuthHeader(h))
             => OperationAt(calls[i].doc, k).security = << "bearerAuth" >>
        /\ (\E n \in obs : H_Authorization \in DOMAIN calls[i].input[n].headers)
             => /\ HasBearerScheme(calls[i].doc)
                /\ calls[i].doc.components.securitySchemes.bearerAuth.type = "http"
                /\ calls[i].doc.components.securitySchemes.bearerAuth.scheme = "bearer"

(***************************************************************************)
(* C9.  No input makes synthesis fail.                                     *)
(***************************************************************************)
\* C9 as claimed: every call returns a document with openapi, info,
\* servers, paths and components instead of raising
C9_Claim ==
  \A i \in CallIds :
    /\ ~ calls[i].raised
    /\ {"openapi", "info", "servers", "paths", "components"}
         \subseteq DOMAIN calls[i].doc

(***************************************************************************)
(* C10.  The Analyzer and the Synthesizer template a path identically.     *)
(***************************************************************************)
\* C10 as claimed: for every literal path APIAnalyzer.normalizePath and
\* extractEndpointPattern return the template of OpenAPIGenerator.normalizePath
C10_Claim ==
  \A t \in 1..Len(templated) :
    "generator" \in DOMAIN templated[t] =>
      /\ templated[t].analyzer = templated[t].generator
      /\ templated[t].pattern = templated[t].generator

(***************************************************************************)
(* C11.  OpenAPIGenerator.normalizePath works segment by segment: digits   *)
(* give {id}, a UUID shape gives {uuid}, 24 hex characters give {objectId},*)
(* the numeric test first; everything else is left as it is.               *)
(***************************************************************************)
IsLowerHex(c) == IsDigit(c) \/ \E i \in 1..6 : LowerAlpha[i] = c

\* 24 hex characters: of either case, or lower case only
C11_IsObjectId(seg, anyCase) ==
  /\ Len(seg) = 24
  /\ \A i \in 1..Len(seg) : IF anyCase THEN IsHexI(seg[i]) ELSE IsLowerHex(seg[i])

\* the segment the rule prescribes for seg
C11_Expected(seg, anyCase) ==
  IF Matches("digits", seg) THEN << "{", "i", "d", "}" >>
  ELSE IF Matches("uuid", seg) THEN << "{", "u", "u", "i", "d", "}" >>
  ELSE IF C11_IsObjectId(seg, anyCase) THEN << "{", "o", "b", "j", "e", "c", "t", "I", "d", "}" >>
  ELSE seg

C11_Segmentwise(anyCase) ==
  \A t \in 1..Len(templated) :
    "generator" \in DOMAIN templated[t] =>
      LET in  == split(templated[t].path)
          out == split(templated[t].generator)
      IN  /\ Len(out) = Len(in)
          /\ \A i \in 1..Len(in) : out[i] = C11_Expected(in[i], anyCase)

\* C11 as claimed: only a segment of 24 lower-case hex characters becomes
\* {objectId}; any other non-numeric, non-UUID segment is left unchanged
C11_Claim == C11_Segmentwise(FALSE)

\* C11 amended: the template of a path has the segments of the path, each
\* replaced by {id} when all digits, else by {uuid} when of UUID shape, else
\* by {objectId} when 24 hex characters of either case, else left unchanged
C11_SegmentTemplates == C11_Segmentwise(TRUE)

\* a path with a 24-digit segment (numeric test first), an upper-case
\* ObjectId and a literal segment has been templated
C11_Witness ==
  \E t \in 1..Len(templated) :
    /\ "generator" \in DOMAIN templated[t]
    /\ LET in == split(templated[t].path) IN
         /\ \E i \in 1..Len(in) : in[i] = S_digits24
         /\ \E i \in 1..Len(in) : in[i] = S_objectIdUpper
         /\ \E i \in 1..Len(in) : in[i] = S_users

(***************************************************************************)
(* C12.  generateOpenAPISpec([]) returns a document with no path, no       *)
(* schema and the single server https://example.com, without raising.      *)
(***************************************************************************)
\* C12: every call made with an empty observation list returns, and its
\* document has paths {}, components.schemas {} and servers
\* [{url: "https://example.com"}]
C12_EmptyInput ==
  \A i \in CallIds :
    calls[i].input = << >> =>
      /\ ~ calls[i].raised
      /\ calls[i].doc.paths = << >>
      /\ calls[i].doc.components.schemas = << >>
      /\ calls[i].doc.servers = << [url |-> << "https:", "example.com", "" >>] >>

\* the generator was called twice before any observation was captured
C12_Witness ==
  /\ Len(calls) = 2
  /\ calls[1].input = << >>
  /\ calls[2].input = << >>

(***************************************************************************)
(* C13.  servers[0].url is the origin (scheme, host and port) of the first *)
(* observation's url, when that url is parseable.                          *)
(***************************************************************************)
\* C13 as claimed: the first server of the document of a non-empty input
\* whose first url parses is that url's origin, port included
C13_Claim ==
  \A i \in CallIds :
    (calls[i].input # << >> /\ calls[i].input[1].url.parseable /\ ~ calls[i].raised)
      => calls[i].doc.servers[1].url = origin(calls[i].input[1].url)

(***************************************************************************)
(* C14.  servers has exactly one entry per distinct origin of the input:   *)
(* the primary origin first, every other origin once in first-seen order.  *)
(***************************************************************************)
\* the distinct origins of the parseable urls of input, in first-seen order
C14_Origins(input) ==
  LET all == [n \in 1..Len(SelectSeq(input, LAMBDA e : e.url.parseable)) |->
                origin(SelectSeq(input, LAMBDA e : e.url.parseable)[n].url)]
      firsts == SelectSeq([n \in 1..Len(all) |-> n],
                          LAMBDA n : \A m \in 1..(n - 1) : all[m] # all[n])
  IN  [k \in 1..Len(firsts) |-> all[firsts[k]]]

\* C14 as claimed: there are as many servers as distinct origins in the
\* input, the servers after the primary one are the other origins, each once
\* in first-seen order, and the origin of the first observation is not listed
\* after the primary server
C14_Claim ==
  \A i \in CallIds :
    (calls[i].input # << >> /\ calls[i].input[1].url.parseable /\ ~ calls[i].raised)
      => LET servers == calls[i].doc.servers IN
         /\ Len(servers) = Len(C14_Origins(calls[i].input))
         /\ \A k \in 2..Len(servers) : servers[k].url = C14_Origins(calls[i].input)[k]
         /\ \A k \in 2..Len(servers) : servers[k].url # origin(calls[i].input[1].url)

(***************************************************************************)
(* C16.  inferParameterTypes classifies each sample as boolean, number or  *)
(* string; one class gives that type with one example, several classes     *)
(* give type string with anyOf and at most three examples.                 *)
(***************************************************************************)
\* the class the claim gives a sample
C16_Class(sample) ==
  CASE sample \in {<< "t", "r", "u", "e" >>, << "f", "a", "l", "s", "e" >>} -> "boolean"
    [] sample \in {<< "5" >>, << "1", "0" >>}                               -> "number"
    [] OTHER                                                                 -> "string"

\* seq lists distinct elements of the list from, in the order of their
\* first occurrence in from
C16_FirstSeenOrder(seq, from) ==
  /\ \A a, b \in 1..Len(seq) : a # b => seq[a] # seq[b]
  /\ \A a \in 1..Len(seq) : \E n \in 1..Len(from) : from[n] = seq[a]
  /\ \A a, b \in 1..Len(seq) :
       a < b => (CHOOSE n \in 1..Len(from) :
                   from[n] = seq[a] /\ \A m \in 1..(n - 1) : from[m] # seq[a])
                < (CHOOSE n \in 1..Len(from) :
                     from[n] = seq[b] /\ \A m \in 1..(n - 1) : from[m] # seq[b])

\* C16: for a non-empty sample list, when all samples have one class the
\* result is that type with one of the samples as example and no anyOf; when
\* the classes differ the result is type string, anyOf lists each class of
\* the samples once, and examples lists the first three distinct sample
\* values (all of them when there are fewer) in first-seen order; the
\* samples "5", "abc" give anyOf [number, string] and examples ["5", "abc"]
C16_InferredTypes ==
  \A t \in 1..Len(inferred) :
    ("result" \in DOMAIN inferred[t] /\ inferred[t].samples # << >>) =>
      LET samples == inferred[t].samples
          result  == inferred[t].result
          classes == {C16_Class(samples[n]) : n \in 1..Len(samples)}
          values  == {samples[n] : n \in 1..Len(samples)}
      IN  /\ Cardinality(classes) = 1 =>
               /\ {result.type} = classes
               /\ DOMAIN result = {"type", "example"}
               /\ result.example \in values
          /\ Cardinality(classes) > 1 =>
               /\ result.type = "string"
               /\ DOMAIN result = {"type", "anyOf", "examples"}
               /\ Len(result.anyOf) = Cardinality(classes)
               /\ {result.anyOf[k].type : k \in 1..Len(result.anyOf)} = classes
               /\ Len(result.examples) =
                    (IF Cardinality(values) < 3 THEN Cardinality(values) ELSE 3)
               /\ C16_FirstSeenOrder(result.examples, samples)
               /\ \A n \in 1..Len(samples) :
                    (\E k \in 1..Len(result.examples) : result.examples[k] = samples[n])
                    \/ Cardinality({samples[m] : m \in 1..n}) > 3
          /\ samples = << << "5" >>, << "a", "b", "c" >> >> =>
               /\ result.anyOf = << [type |-> "number"], [type |-> "string"] >>
               /\ result.examples = << << "5" >>, << "a", "b", "c" >> >>

\* a list of four distinct samples of three classes has been inferred: the
\* fourth value is not kept as an example
C16_Witness ==
  \E t \in 1..Len(inferred) :
    /\ "result" \in DOMAIN inferred[t]
    /\ Cardinality({inferred[t].samples[n] : n \in 1..Len(inferred[t].samples)}) = 4
    /\ Len(inferred[t].result.anyOf) = 3
    /\ Len(inferred[t].result.examples) = 3

(***************************************************************************)
(* C15.  The parameters of an operation are the union by name of the       *)
(* parameters of all observations of its key; a query parameter's type is  *)
(* inferred over all values observed for its name.                         *)
(***************************************************************************)
\* the <<name, in>> pairs of a parameter list
C15_Names(parameters) ==
  {<< parameters[p].name, parameters[p]["in"] >> : p \in 1..Len(parameters)}

\* the values observed for the query parameter name among the observations
\* obs of input, in observation order
C15_Samples(input, obs, name) ==
  LET hits == SelectSeq([n \in 1..Len(input) |-> n],
                LAMBDA n : n \in obs /\ \E q \in 1..Len(input[n].searchParams) :
                                          input[n].searchParams[q][1] = name)
  IN  [h \in 1..Len(hits) |->
         LET sp == input[hits[h]].searchParams
         IN  sp[CHOOSE q \in 1..Len(sp) : sp[q][1] = name][2]]

\* C15 as claimed: an operation lists every parameter of every observation
\* of its key, each name once, and the schema of a query parameter is the
\* type inferred over all the values observed for that name
C15_Claim ==
  \A i \in CallIds :
    ~ calls[i].raised =>
      \A k \in OperationKeys(calls[i].doc) :
        LET parameters == OperationAt(calls[i].doc, k).parameters
            obs        == Contributing(calls[i].input, k)
        IN  /\ C15_Names(parameters) =
                 UNION {C15_Names(generateParameters(calls[i].input[n])) : n \in obs}
            /\ Len(parameters) = Cardinality(C15_Names(parameters))
            /\ \A p \in 1..Len(parameters) :
                 parameters[p]["in"] = "query" =>
                   LET inferredType ==
                         inferParameterTypes(
                           C15_Samples(calls[i].input, obs, parameters[p].name))
                   IN  /\ parameters[p].schema.type = inferredType.type
                       /\ "anyOf" \in DOMAIN inferredType =>
                            /\ "anyOf" \in DOMAIN parameters[p].schema
                            /\ parameters[p].schema.anyOf = inferredType.anyOf

(***************************************************************************)
(* C17.  analyzeEndpoints skips an observation with an unparseable url for *)
(* host and template derivation only: the call returns and the             *)
(* observation's method and status are counted in the statistics.          *)
(***************************************************************************)
\* the count recorded for key in a sorted count list, 0 when it is absent
C17_CountOf(counts, key) ==
  IF \E c \in 1..Len(counts) : counts[c].key = key
    THEN counts[CHOOSE c \in 1..Len(counts) : counts[c].key = key].value
    ELSE 0

\* C17 as claimed: an analysis whose input holds an observation with an
\* unparseable url returns, its totalEndpoints is the length of the input,
\* and statistics.methods and statistics.statusCodes count the method and
\* the status of every observation, the unparseable ones included
C17_Claim ==
  \A a \in 1..Len(analysis) :
    (\E n \in 1..Len(analysis[a].input) : ~ analysis[a].input[n].url.parseable) =>
      /\ ~ analysis[a].raised
      /\ analysis[a].statistics.totalEndpoints = Len(analysis[a].input)
      /\ \A n \in 1..Len(analysis[a].input) :
           /\ C17_CountOf(analysis[a].statistics.methods, analysis[a].input[n].method)
                = Cardinality({m \in 1..Len(analysis[a].input) :
                                 analysis[a].input[m].method = analysis[a].input[n].method})
           /\ C17_CountOf(analysis[a].statistics.statusCodes, analysis[a].input[n].status)
                = Cardinality({m \in 1..Len(analysis[a].input) :
                                 analysis[a].input[m].status = analysis[a].input[n].status})

(***************************************************************************)
(* C18.  Two observations are in the same group exactly when they have the *)
(* same hostname and the same first two non-empty path segments (the whole *)
(* path when it has fewer than two).                                       *)
(***************************************************************************)
\* the hostname and the first two non-empty path segments of an observation
C18_Key(endpoint) ==
  LET segments == pathSegments(endpoint.url.pathname) IN
  << endpoint.url.hostname,
     SubSeq(segments, 1, IF Len(segments) < 2 THEN Len(segments) ELSE 2) >>

\* some group of the analysis holds both observations
C18_SameGroup(groups, e1, e2) ==
  \E g \in 1..Len(groups) :
    /\ \E x \in 1..Len(groups[g].endpoints) : groups[g].endpoints[x] = e1
    /\ \E y \in 1..Len(groups[g].endpoints) : groups[g].endpoints[y] = e2

\* C18 as claimed: in every returned analysis two observations of the input
\* share a group if and only if they agree on hostname and on their first
\* two path segments
C18_Claim ==
  \A a \in 1..Len(analysis) :
    ~ analysis[a].raised =>
      \A n, m \in 1..Len(analysis[a].input) :
        C18_SameGroup(analysis[a].groups, analysis[a].input[n], analysis[a].input[m])
          <=> C18_Key(analysis[a].input[n]) = C18_Key(analysis[a].input[m])


(***************************************************************************)
(* C20: the background follows the documented state flow: START_DISCOVERY  *)
(* takes Ready to Discovering, STOP_DISCOVERY takes Discovering to Ready,  *)
(* a captured endpoint keeps Discovering, and CLEAR_DATA handled while     *)
(* Discovering leaves Ready (isDiscovering false) with no endpoints.       *)
(***************************************************************************)
C20_Captured == Len(apiEvents') = Len(apiEvents) + 1

C20_StateFlow ==
  /\ (StartDiscovery /\ ~bg.isDiscovering) => bg'.isDiscovering
  /\ (StopDiscovery /\ bg.isDiscovering) => ~bg'.isDiscovering
  /\ (HandleWebRequest /\ C20_Captured) => (bg.isDiscovering /\ bg'.isDiscovering)
  /\ (ClearData /\ bg.isDiscovering) => (~bg'.isDiscovering /\ bg'.endpoints = << >>)

C20_Claim == [][C20_StateFlow]_vars

(***************************************************************************)
(* C19: the YAML text returned by BUILD_OPENAPI is a lossless rendering of *)
(* the generated document: every value of the document, the values inside  *)
(* objects that are elements of arrays (servers, parameters, tags)         *)
(* included, appears in the YAML.                                          *)
(***************************************************************************)
\* the scalar values of a document, in document order
RECURSIVE C19_Values(_)
C19_Values(node) ==
  IF node.t = "scalar" THEN << [kind |-> node.kind, v |-> node.v] >>
  ELSE IF node.t = "array"
    THEN Flatten([i \in 1..Len(node.items) |-> C19_Values(node.items[i])])
  ELSE Flatten([e \in 1..Len(node.entries) |-> C19_Values(node.entries[e].value)])

\* the scalar values the lines of a YAML text show
C19_Shown(yaml) ==
  Flatten([l \in 1..Len(yaml) |->
             IF "value" \in DOMAIN yaml[l] THEN << yaml[l].value >>
             ELSE IF "item" \in DOMAIN yaml[l] THEN yaml[l].item
             ELSE << >>])

C19_Lossless(answer) ==
  LET values == C19_Values(answer.json)
      shown  == C19_Shown(answer.yaml)
  IN  \A n \in 1..Len(values) : \E l \in 1..Len(shown) : SameKey(shown[l], values[n])

C19_Claim ==
  \A b \in 1..Len(built) : ~built[b].empty => C19_Lossless(built[b])

(***************************************************************************)
(* C21: in every reachable state of the background no stored endpoint      *)
(* holds a sensitive request header in clear: a header named               *)
(* Authorization, Cookie, Set-Cookie, x-api-key or a token-bearing name    *)
(* has the value "[REDACTED]" in this.endpoints (what GET_STATE returns)   *)
(* and in chrome.storage.local.                                            *)
(***************************************************************************)
C21_Sensitive(name) ==
  LET lower == toLowerCase(name) IN
  \/ lower \in { << "a","u","t","h","o","r","i","z","a","t","i","o","n" >>,
                 << "c","o","o","k","i","e" >>,
                 << "s","e","t","-","c","o","o","k","i","e" >>,
                 << "x","-","a","p","i","-","k","e","y" >> }
  \/ includes(lower, << "t","o","k","e","n" >>)

C21_Redacted(list) ==
  \A n \in 1..Len(list) : \A name \in DOMAIN list[n].headers :
    C21_Sensitive(name) => list[n].headers[name] = S_redacted

C21_Claim == C21_Redacted(bg.endpoints) /\ C21_Redacted(storage.endpoints)

(***************************************************************************)
(* C22: the operationId of an operation is the method prefix (GET get,     *)
(* POST create, PUT update, PATCH patch, DELETE delete, any other verb     *)
(* lower-cased) followed by the capitalized last segment of the path       *)
(* template (a placeholder counts only when it is the only segment), so    *)
(* observations of one template get the same base name whatever identifier *)
(* their literal path holds; a uniqueness suffix of digits may follow.     *)
(***************************************************************************)
C22_Prefix(method) ==
  LET m == toUpperCase(method) IN
  CASE m = M_GET    -> << "g", "e", "t" >>
    [] m = M_POST   -> << "c", "r", "e", "a", "t", "e" >>
    [] m = M_PUT    -> << "u", "p", "d", "a", "t", "e" >>
    [] m = M_PATCH  -> << "p", "a", "t", "c", "h" >>
    [] m = M_DELETE -> << "d", "e", "l", "e", "t", "e" >>
    [] OTHER        -> toLowerCase(method)

C22_IsPlaceholder(seg) == Len(seg) > 0 /\ seg[1] = "{"

C22_Resource(template) ==
  LET segments == pathSegments(template)
      named    == SelectSeq(segments, LAMBDA seg : ~ C22_IsPlaceholder(seg))
  IN  IF named # << >> THEN named[Len(named)]
      ELSE IF segments # << >> THEN segments[Len(segments)]
      ELSE S_item

C22_Base(observation) ==
  C22_Prefix(observation.method)
  \o capitalize(C22_Resource(normalizePath(observation.pathname)))

C22_IsBasePlusSuffix(id, base) ==
  /\ Len(id) >= Len(base)
  /\ SubSeq(id, 1, Len(base)) = base
  /\ \A c \in (Len(base) + 1)..Len(id) : IsDigit(id[c])

C22_Claim ==
  \A i \in CallIds :
    ~ calls[i].raised =>
      \A n \in 1..Len(calls[i].assigned) :
        C22_IsBasePlusSuffix(calls[i].assigned[n], C22_Base(calls[i].input[n]))

(***************************************************************************)
(* C23: in every generated document an operation has a requestBody if and  *)
(* only if its method is post, put or patch, and that requestBody refers   *)
(* to the <Resource>Input schema of the resource named by the operation's  *)
(* final path segment, which is one of the schemas of the document.        *)
(***************************************************************************)
C23_Operation(doc, k) ==
  LET op == OperationAt(doc, k) IN
  /\ ("requestBody" \in DOMAIN op)
       <=> (k[2] \in { << "p", "o", "s", "t" >>, << "p", "u", "t" >>,
                       << "p", "a", "t", "c", "h" >> })
  /\ ("requestBody" \in DOMAIN op) =>
       LET ref == op.requestBody.content["application/json"].schema.ref IN
       /\ ref = capitalize(C22_Resource(k[1])) \o << "I", "n", "p", "u", "t" >>
       /\ ref \in DOMAIN doc.components.schemas

C23_Claim ==
  \A i \in CallIds :
    ~ calls[i].raised =>
      \A k \in OperationKeys(calls[i].doc) : C23_Operation(calls[i].doc, k)

(***************************************************************************)
(* C24: while isDiscovering is false a webRequest completion event or      *)
(* request-headers event leaves the background's endpoint list, the        *)
(* headers of every stored endpoint and the storage unchanged and sends no *)
(* API_EVENT; a webRequest event appends an endpoint only while            *)
(* isDiscovering is true.                                                  *)
(***************************************************************************)
C24_NoCaptureWhileOff ==
  /\ lastEvent.outcome = "off" => ~ lastEvent.changed
  /\ lastEvent.changed => lastEvent.outcome = "handled"

\* an event arrived while discovery was off, with endpoints captured before
C24_Witness ==
  /\ lastEvent.outcome = "off"
  /\ ~ bg.isDiscovering
  /\ bg.endpoints # << >>
  /\ apiEvents # << >>

(***************************************************************************)
(* C25: once the background has answered START_DISCOVERY, isDiscovering    *)
(* stays true and the endpoints captured stay in the list until a          *)
(* STOP_DISCOVERY or CLEAR_DATA message is handled; the loadState started  *)
(* in the constructor cannot complete later and overwrite them with the    *)
(* older stored values.                                                    *)
(***************************************************************************)
C25_Step ==
  (bg.isDiscovering /\ ~ StopDiscovery /\ ~ ClearData) =>
    (bg'.isDiscovering /\ Len(bg'.endpoints) >= Len(bg.endpoints))

C25_Claim == [][C25_Step]_vars

(***************************************************************************)
(* C26: for every request captured while discovering, whose                *)
(* request-headers event precedes its completion event, the endpoint       *)
(* record created for that request ends up holding that request's          *)
(* sanitized headers, and the headers of one request are never attached to *)
(* the endpoint record of a different request with the same url.           *)
(***************************************************************************)
C26_Settled == \A k \in 1..Len(requests) : requests[k].phase = "completed"

C26_OwnHeaders(k) == sanitizeHeaders(requests[k].details.requestHeaders)

C26_Claim ==
  \A k \in 1..Len(requests) :
    requests[k].record > 0 =>
      LET held == bg.endpoints[requests[k].record].headers IN
      /\ (C26_Settled /\ requests[k].discovering) => held = C26_OwnHeaders(k)
      /\ DOMAIN held # {} => held = C26_OwnHeaders(k)

(***************************************************************************)
(* C27: after all in-flight messages have been delivered, the popup's      *)
(* endpoint list and displayed count equal the background's endpoint list, *)
(* for every interleaving of the GET_STATE response, the API_EVENT         *)
(* notifications and CLEAR_DATA: no captured endpoint is lost or counted   *)
(* twice in the popup.                                                     *)
(***************************************************************************)
C27_Delivered ==
  /\ popup.open
  /\ \A i \in 1..Len(rpc) : rpc[i].phase = "done"
  /\ popup.received = Len(apiEvents)

\* an entry of the popup's list without the type field of the message
C27_Endpoint(entry) == [f \in (DOMAIN entry) \ {"type"} |-> entry[f]]

C27_Claim ==
  C27_Delivered =>
    /\ popup.count = Len(bg.endpoints)
    /\ Len(popup.endpoints) = Len(bg.endpoints)
    /\ \A n \in 1..Len(bg.endpoints) : C27_Endpoint(popup.endpoints[n]) = bg.endpoints[n]

(***************************************************************************)
(* C28: after every popup operation (initial load, start, stop, clear      *)
(* data, API_EVENT) has finished, the export buttons are disabled whenever *)
(* the popup is discovering or its endpoint list is empty, and enabled     *)
(* only when it is not discovering and holds at least one endpoint.        *)
(***************************************************************************)
C28_Finished == popup.open /\ \A i \in 1..Len(rpc) : rpc[i].phase = "done"

C28_Claim ==
  C28_Finished =>
    /\ (popup.isDiscovering \/ Len(popup.endpoints) = 0) => popup.exportDisabled
    /\ ~ popup.exportDisabled => (~ popup.isDiscovering /\ Len(popup.endpoints) > 0)


(***************************************************************************)
(* C29: the groups returned by groupEndpointsByPattern partition the       *)
(* input: every observation is in exactly one group, the endpointCount     *)
(* values sum to the number of observations, all observations of one group *)
(* have the hostname recorded on the group, and the groups are ordered by  *)
(* endpointCount descending.                                               *)
(***************************************************************************)
\* how many positions of the list hold the observation
C29_Occurrences(list, endpoint) ==
  Cardinality({n \in 1..Len(list) : list[n] = endpoint})

\* the sum of endpointCount over groups[index..]
RECURSIVE C29_CountSum(_,_)
C29_CountSum(groups, index) ==
  IF index > Len(groups) THEN 0
  ELSE groups[index].endpointCount + C29_CountSum(groups, index + 1)

\* the groups that hold the observation
C29_GroupsOf(groups, endpoint) ==
  {g \in 1..Len(groups) : C29_Occurrences(groups[g].endpoints, endpoint) > 0}

\* C29 as claimed, for every analysis that returned
C29_Claim ==
  \A a \in 1..Len(analysis) :
    ~ analysis[a].raised =>
      LET input  == analysis[a].input
          groups == analysis[a].groups
      IN /\ \A n \in 1..Len(input) :
              /\ Cardinality(C29_GroupsOf(groups, input[n])) = 1
              /\ \A g \in C29_GroupsOf(groups, input[n]) :
                   C29_Occurrences(groups[g].endpoints, input[n])
                     = C29_Occurrences(input, input[n])
         /\ C29_CountSum(groups, 1) = Len(input)
         /\ \A g \in 1..Len(groups) :
              /\ groups[g].endpointCount = Len(groups[g].endpoints)
              /\ \A x \in 1..Len(groups[g].endpoints) :
                   groups[g].endpoints[x].url.hostname = groups[g].hostname
         /\ \A g \in 1..Len(groups) : \A h \in 1..Len(groups) :
              g < h => groups[g].endpointCount >= groups[h].endpointCount


(***************************************************************************)
(* Utils.retry (src/lib/openapi-generator.js).  fn is the caller's: each   *)
(* call of it ends in a value or in an error, chosen freely.               *)
(***************************************************************************)
\* the values of the argument maxAttempts
AttemptCounts == 0..MaxAttempts

\* the values of the argument baseDelay (1000 is the default)
BaseDelays == {0, 1, 1000}

\* what the promise of one fn() can settle with: a value or an error
FnOutcomes ==
  [ok : {TRUE}, payload : {"v1", "v2"}] \cup [ok : {FALSE}, payload : {"e1", "e2"}]

\* the value of an async function that ends without a return
S_undefined == "undefined"

\* const delay = baseDelay * Math.pow(2, attempt - 1)
retryDelay(baseDelay, attempt) == baseDelay * 2^(attempt - 1)

\* Utils.retry(fn, maxAttempts, baseDelay) is called: the loop is entered and
\* fn() is called and awaited, or the loop is not entered at all and the
\* function ends without a return
RetryStart ==
  /\ retry.phase \in {"idle", "resolved", "rejected"}
  /\ \E maxAttempts \in AttemptCounts, baseDelay \in BaseDelays :
       retry' = [maxAttempts |-> maxAttempts, baseDelay |-> baseDelay,
                 attempt |-> 1, log |-> << >>, waits |-> << >>,
                 phase  |-> IF 1 <= maxAttempts THEN "calling" ELSE "resolved",
                 calls  |-> IF 1 <= maxAttempts THEN 1 ELSE 0,
                 result |-> S_undefined]
  /\ UNCHANGED otherVars
  /\ UNCHANGED bgVars
  /\ UNCHANGED << requests, popup, rpc >>

\* the awaited fn() settles, the last failure not thrown again
RetryFnSettles_NoRethrow ==
  /\ retry.phase = "calling"
  /\ \E outcome \in FnOutcomes :
       retry' =
         IF outcome.ok
           THEN [retry EXCEPT !.log = Append(@, outcome), !.phase = "resolved",
                              !.result = outcome.payload]
           ELSE [retry EXCEPT !.log = Append(@, outcome), !.phase = "waiting",
                              !.waits = Append(@, retryDelay(retry.baseDelay,
                                                             retry.attempt))]
  /\ UNCHANGED otherVars
  /\ UNCHANGED bgVars
  /\ UNCHANGED << requests, popup, rpc >>

\* the awaited fn() settles: its value is returned, or its error is caught
\* and either thrown again (last attempt) or followed by the backoff timer
RetryFnSettles ==
  /\ retry.phase = "calling"
  /\ \E outcome \in FnOutcomes :
       retry' =
         IF outcome.ok
           THEN [retry EXCEPT !.log = Append(@, outcome), !.phase = "resolved",
                              !.result = outcome.payload]
         ELSE IF retry.attempt = retry.maxAttempts
           THEN [retry EXCEPT !.log = Append(@, outcome), !.phase = "rejected",
                              !.result = outcome.payload]
           ELSE [retry EXCEPT !.log = Append(@, outcome), !.phase = "waiting",
                              !.waits = Append(@, retryDelay(retry.baseDelay,
                                                             retry.attempt))]
  /\ UNCHANGED otherVars
  /\ UNCHANGED bgVars
  /\ UNCHANGED << requests, popup, rpc >>

\* the backoff timer fires: attempt++, then the loop test and the next fn()
RetryTimeout ==
  /\ retry.phase = "waiting"
  /\ retry' =
       IF retry.attempt + 1 <= retry.maxAttempts
         THEN [retry EXCEPT !.attempt = @ + 1, !.phase = "calling", !.calls = @ + 1]
         ELSE [retry EXCEPT !.attempt = @ + 1, !.phase = "resolved"]
  /\ UNCHANGED otherVars
  /\ UNCHANGED bgVars
  /\ UNCHANGED << requests, popup, rpc >>

NextRetry == RetryStart \/ RetryFnSettles \/ RetryTimeout

SpecRetry == Init /\ [][NextRetry]_vars

\* the event loop fires a timer that was set, and a promise of fn settles
SpecRetryFair == SpecRetry /\ WF_vars(RetryFnSettles) /\ WF_vars(RetryTimeout)

(***************************************************************************)
(* C30: Utils.retry(fn, maxAttempts, baseDelay) always terminates: it      *)
(* calls fn at least once and at most maxAttempts times, stops at the      *)
(* first call that succeeds and returns its value, and when all            *)
(* maxAttempts calls fail it rejects with the error of the last call; the  *)
(* wait before attempt k+1 is baseDelay * 2^(k-1).                         *)
(***************************************************************************)
C30_Running == retry.phase \in {"calling", "waiting"}

C30_Settled == retry.phase \in {"resolved", "rejected"}

\* the calls of fn that failed
C30_Failed == {k \in 1..Len(retry.log) : ~ retry.log[k].ok}

\* no call after a success, the value of the successful call returned, the
\* error of the last call thrown once maxAttempts calls have failed, and
\* the k-th wait is baseDelay * 2^(k-1)
C30_Outcome ==
  /\ \A k \in 1..Len(retry.log) : retry.log[k].ok => k = Len(retry.log)
  /\ retry.calls = Len(retry.log) + (IF retry.phase = "calling" THEN 1 ELSE 0)
  /\ (retry.phase = "resolved" /\ retry.calls >= 1) =>
       /\ retry.log[Len(retry.log)].ok
       /\ retry.result = retry.log[Len(retry.log)].payload
  /\ (Cardinality(C30_Failed) = retry.maxAttempts /\ retry.calls >= 1) =>
       /\ retry.phase = "rejected"
       /\ retry.result = retry.log[Len(retry.log)].payload
  /\ retry.phase = "rejected" => Cardinality(C30_Failed) = retry.maxAttempts
  /\ Len(retry.waits)
       = Cardinality(C30_Failed) - (IF retry.phase = "rejected" THEN 1 ELSE 0)
  /\ \A k \in 1..Len(retry.waits) : retry.waits[k] = retry.baseDelay * 2^(k - 1)

C30_Safe ==
  retry.phase # "idle" =>
    /\ (C30_Settled /\ retry.maxAttempts >= 1) => retry.calls >= 1
    /\ retry.maxAttempts < 1 =>
         (retry.calls = 0 /\ retry.phase = "resolved" /\ retry.result = S_undefined)
    /\ retry.calls <= retry.maxAttempts
    /\ C30_Outcome

====
